---- MODULE Spec2Model ----
(***************************************************************************)
(* Gatehouse datastore (src/src/lib/ds.rs): the five in-memory maps, the   *)
(* storage backend, the request inbox and the handler tasks that           *)
(* Datastore::run spawns, one per request.  Every handler is a pure step   *)
(* function  handler(M, T, ok, pick)  from the datastore M and the task T  *)
(* to the datastore and task after the handler's next suspension point     *)
(* (a map lock acquisition or a storage call): ok is the Result of the     *)
(* storage call the step completes, pick the element a HashSet iteration   *)
(* yields next.  rpc is what the RPC handler of svc.rs that sent a request *)
(* has come to, watch the state of the backend's change-stream watcher,     *)
(* hash64 the values metro::hash64 returns for the actor keys in play.     *)
(***************************************************************************)
EXTENDS Integers, Sequences, FiniteSets, TLC

VARIABLES targets, actors, roles, groups, policies, disk, tasks, inbox, snap, focus,
          rpc, watch, hash64

maps == <<targets, actors, roles, groups, policies>>
vars == <<targets, actors, roles, groups, policies, disk, tasks, inbox, snap, focus, rpc, watch,
          hash64>>

-----------------------------------------------------------------------------
(* Bounds and universes                                                    *)

\* The number of handler tasks that can be in flight at once.
NumTasks == 2

TaskIds == 1..NumTasks

RoleNames == {"r1", "r2"}
GroupNames == {"g1"}
Members == {[name |-> "amy", typestr |-> "user"]}

\* Mixed-case spellings a caller may use, with their ASCII lowercase form.
Spellings == {<<"R1", "r1">>, <<"G1", "g1">>, <<"T1", "t1">>, <<"DB", "db">>,
              <<"AMY", "amy">>, <<"USER", "user">>, <<"P1", "p1">>, <<"READ", "read">>}

-----------------------------------------------------------------------------
(* Values                                                                  *)

\* str::to_ascii_lowercase
Lower(s) == IF \E p \in Spellings : p[1] = s
            THEN (CHOOSE p \in Spellings : p[1] = s)[2]
            ELSE s

\* Option<T>: None is the empty sequence, Some(x) the one-element sequence.
None == <<>>
Some(x) == <<x>>

\* HashMap: a function with a finite domain.
EmptyMap == [k \in {} |-> {}]
Put(m, k, v) == [x \in (DOMAIN m) \cup {k} |-> IF x = k THEN v ELSE m[x]]
Del(m, k) == [x \in (DOMAIN m) \ {k} |-> m[x]]
Get(m, k) == IF k \in DOMAIN m THEN Some(m[k]) ELSE None

\* Vec: the set of its elements.
Range(s) == {s[i] : i \in 1..Len(s)}

\* RegisteredRole::new
NewRole(name) == [name |-> name, groups |-> {}]

\* RegisteredGroup::new
NewGroup(name, desc, members, rs) ==
    [name |-> Lower(name), desc |-> desc, members |-> members, roles |-> rs]

\* impl From<GroupMember> for RegisteredGroupMember
ToMember(m) == [name |-> m.name, typestr |-> m.typestr]

-----------------------------------------------------------------------------
(* The datastore value handlers work on, and the storage backend           *)

Mem == [targets |-> targets, actors |-> actors, roles |-> roles,
        groups |-> groups, policies |-> policies, disk |-> disk]

EmptyDisk == [targets |-> EmptyMap, actors |-> EmptyMap, roles |-> EmptyMap,
              groups |-> EmptyMap, policies |-> EmptyMap]

\* Storage::save_*: the backend holds the record under its key.
Save(M, kind, key, rec) == [M EXCEPT !.disk[kind] = Put(@, key, rec)]

\* Storage::remove_*: the backend holds no record under the key.
Remove(M, kind, key) == [M EXCEPT !.disk[kind] = Del(@, key)]

\* The Result of the last storage call a handler made, and what it was for.
Ack(kind, key, val, ok) == <<[kind |-> kind, key |-> key, val |-> val, ok |-> ok]>>

-----------------------------------------------------------------------------
(* Tasks and replies                                                       *)

IdleTask == [pc |-> "idle", req |-> [op |-> "None"], reply |-> <<>>, rec |-> <<>>,
             found |-> <<>>, todo |-> <<>>, pend |-> {}, ack |-> <<>>]

\* DsResponse::Error(Status::<code>)
Error(code) == [kind |-> "Error", code |-> code, val |-> {}]

\* DsResponse::Single*(record)
Single(kind, rec) == [kind |-> kind, code |-> "Ok", val |-> {rec}]

\* DsResponse::Multiple*(records)
Multiple(kind, recs) == [kind |-> kind, code |-> "Ok", val |-> recs]

\* tx.send(response); return
Reply(T, r) == [IdleTask EXCEPT !.pc = "done", !.req = T.req, !.reply = <<r>>]

\* Option::unwrap on None: the task panics and its reply channel is dropped.
Panic(T) == [IdleTask EXCEPT !.pc = "panicked", !.req = T.req]

Ret(M, T) == [m |-> M, t |-> T]

\* The tail shared by the handlers that write secondary records: save each
\* record of T.found, insert it into its map whatever the save returned,
\* and reply once the list is exhausted.
\* Secondary, were it to reply with the error of a save that failed.
SecondarySurfacingError(M, T, ok, kind, final) ==
    LET r == Head(T.found) IN
    CASE T.pc = "persist2" ->
           IF ok
           THEN Ret(Save(M, kind, r.name, r),
                    [T EXCEPT !.pc = "commit2", !.ack = Ack(kind, r.name, Some(r), ok)])
           ELSE Ret(M, Reply(T, Error("Internal")))
      [] T.pc = "commit2" ->
           LET M2 == [M EXCEPT ![kind] = Put(@, r.name, r)] IN
           IF Tail(T.found) = <<>>
           THEN Ret(M2, Reply(T, final))
           ELSE Ret(M2, [T EXCEPT !.pc = "persist2", !.found = Tail(@)])

Secondary(M, T, ok, kind, final) ==
    LET r == Head(T.found) IN
    CASE T.pc = "persist2" ->
           Ret(IF ok THEN Save(M, kind, r.name, r) ELSE M,
               [T EXCEPT !.pc = "commit2", !.ack = Ack(kind, r.name, Some(r), ok)])
      [] T.pc = "commit2" ->
           LET M2 == [M EXCEPT ![kind] = Put(@, r.name, r)] IN
           IF Tail(T.found) = <<>>
           THEN Ret(M2, Reply(T, final))
           ELSE Ret(M2, [T EXCEPT !.pc = "persist2", !.found = Tail(@)])

-----------------------------------------------------------------------------
(* Roles                                                                   *)

\* add_role, were it not to look for the role before saving it.
add_role_unchecked(M, T, ok, pick) ==
    LET role == Lower(T.req.name)
        new_role == NewRole(role)
    IN
    CASE T.pc = "start" -> Ret(M, [T EXCEPT !.pc = "persist"])
      [] T.pc = "persist" ->
           IF ok
           THEN Ret(Save(M, "roles", role, new_role),
                    [T EXCEPT !.pc = "commit", !.ack = Ack("roles", role, Some(new_role), TRUE)])
           ELSE Ret(M, Reply(T, Error("Internal")))
      [] T.pc = "commit" ->
           Ret([M EXCEPT !.roles = Put(@, role, new_role)],
               Reply(T, Single("SingleRole", new_role)))

add_role(M, T, ok, pick) ==
    LET role == Lower(T.req.name)
        new_role == NewRole(role)
    IN
    CASE T.pc = "start" ->
           IF role \in DOMAIN M.roles
           THEN Ret(M, Reply(T, Error("AlreadyExists")))
           ELSE Ret(M, [T EXCEPT !.pc = "persist"])
      [] T.pc = "persist" ->
           IF ok
           THEN Ret(Save(M, "roles", role, new_role),
                    [T EXCEPT !.pc = "commit", !.ack = Ack("roles", role, Some(new_role), TRUE)])
           ELSE Ret(M, Reply(T, Error("Internal")))
      [] T.pc = "commit" ->
           Ret([M EXCEPT !.roles = Put(@, role, new_role)],
               Reply(T, Single("SingleRole", new_role)))

\* remove_role, were it to save the groups of the role as they are.
remove_role_keeping_grants(M, T, ok, pick) ==
    LET role == Lower(T.req.name) IN
    CASE T.pc = "start" ->
           IF role \notin DOMAIN M.roles
           THEN Ret(M, Reply(T, Error("NotFound")))
           ELSE Ret(M, [T EXCEPT !.pc = "get"])
      [] T.pc = "get" ->
           IF role \notin DOMAIN M.roles
           THEN Ret(M, Panic(T))
           ELSE LET existing_role == M.roles[role] IN
                Ret(M, [T EXCEPT !.rec = Some(existing_role),
                                 !.pend = existing_role.groups,
                                 !.pc = IF existing_role.groups = {} THEN "persist" ELSE "scan"])
      [] T.pc = "scan" ->
           LET rest == T.pend \ {pick}
               T2 == [T EXCEPT !.pend = rest,
                               !.pc = IF rest = {} THEN "persist" ELSE "scan"]
           IN
           IF pick \in DOMAIN M.groups
           THEN LET cloned_grp == M.groups[pick] IN
                Ret(M, [T2 EXCEPT !.found = Append(@, cloned_grp)])
           ELSE Ret(M, T2)
      [] T.pc = "persist" ->
           IF ok
           THEN Ret(Remove(M, "roles", T.rec[1].name),
                    [T EXCEPT !.pc = "commit", !.ack = Ack("roles", role, None, TRUE)])
           ELSE Ret(M, Reply(T, Error("Internal")))
      [] T.pc = "commit" ->
           LET M2 == [M EXCEPT !.roles = Del(@, role)] IN
           IF T.found = <<>>
           THEN Ret(M2, Reply(T, Single("SingleRole", T.rec[1])))
           ELSE Ret(M2, [T EXCEPT !.pc = "persist2"])
      [] T.pc \in {"persist2", "commit2"} ->
           Secondary(M, T, ok, "groups", Single("SingleRole", T.rec[1]))

remove_role(M, T, ok, pick) ==
    LET role == Lower(T.req.name) IN
    CASE T.pc = "start" ->
           IF role \notin DOMAIN M.roles
           THEN Ret(M, Reply(T, Error("NotFound")))
           ELSE Ret(M, [T EXCEPT !.pc = "get"])
      [] T.pc = "get" ->
           IF role \notin DOMAIN M.roles
           THEN Ret(M, Panic(T))
           ELSE LET existing_role == M.roles[role] IN
                Ret(M, [T EXCEPT !.rec = Some(existing_role),
                                 !.pend = existing_role.groups,
                                 !.pc = IF existing_role.groups = {} THEN "persist" ELSE "scan"])
      [] T.pc = "scan" ->
           LET rest == T.pend \ {pick}
               T2 == [T EXCEPT !.pend = rest,
                               !.pc = IF rest = {} THEN "persist" ELSE "scan"]
           IN
           IF pick \in DOMAIN M.groups
           THEN LET cloned_grp == [M.groups[pick] EXCEPT !.roles = @ \ {role}] IN
                Ret(M, [T2 EXCEPT !.found = Append(@, cloned_grp)])
           ELSE Ret(M, T2)
      [] T.pc = "persist" ->
           IF ok
           THEN Ret(Remove(M, "roles", T.rec[1].name),
                    [T EXCEPT !.pc = "commit", !.ack = Ack("roles", role, None, TRUE)])
           ELSE Ret(M, Reply(T, Error("Internal")))
      [] T.pc = "commit" ->
           LET M2 == [M EXCEPT !.roles = Del(@, role)] IN
           IF T.found = <<>>
           THEN Ret(M2, Reply(T, Single("SingleRole", T.rec[1])))
           ELSE Ret(M2, [T EXCEPT !.pc = "persist2"])
      [] T.pc \in {"persist2", "commit2"} ->
           Secondary(M, T, ok, "groups", Single("SingleRole", T.rec[1]))

get_roles(M, T, ok, pick) ==
    IF T.req.name = None
    THEN Ret(M, Reply(T, Multiple("MultipleRoles", {M.roles[r] : r \in DOMAIN M.roles})))
    ELSE Ret(M, Reply(T, Multiple("MultipleRoles",
                 IF T.req.name[1] \in DOMAIN M.roles THEN {M.roles[T.req.name[1]]} ELSE {})))

-----------------------------------------------------------------------------
(* Groups                                                                  *)

\* req.roles / req.add_roles / req.remove_roles as the list of lookups to make.
Lookups(names, adding) == [i \in 1..Len(names) |-> [adding |-> adding, role |-> names[i]]]

\* LinkRole, were it to leave the groups of the role as they are.
LinkRoleOneWay(M, T, name) ==
    LET role_req == Head(T.todo).role
        adding == Head(T.todo).adding
        role_req_name == Lower(role_req)
        rest == Tail(T.todo)
    IN
    IF role_req_name \notin DOMAIN M.roles
    THEN Ret(M, Reply(T, Error("NotFound")))
    ELSE LET found_role == M.roles[role_req_name]
             cloned_role == [found_role EXCEPT
                               !.groups = @]
             grp == [T.rec[1] EXCEPT
                       !.roles = IF adding THEN @ \cup {role_req_name}
                                           ELSE @ \ {role_req_name}]
         IN
         Ret(M, [T EXCEPT !.found = Append(@, cloned_role),
                          !.rec = Some(grp),
                          !.todo = rest,
                          !.pc = IF rest = <<>> THEN "persist" ELSE "scan"])

\* The role lookup shared by add_group and modify_group: the named role must
\* exist; a clone of it with the group reference added or removed joins
\* found_roles, and the group's own role set follows.
LinkRole(M, T, name) ==
    LET role_req == Head(T.todo).role
        adding == Head(T.todo).adding
        role_req_name == Lower(role_req)
        rest == Tail(T.todo)
    IN
    IF role_req_name \notin DOMAIN M.roles
    THEN Ret(M, Reply(T, Error("NotFound")))
    ELSE LET found_role == M.roles[role_req_name]
             cloned_role == [found_role EXCEPT
                               !.groups = IF adding THEN @ \cup {name} ELSE @ \ {name}]
             grp == [T.rec[1] EXCEPT
                       !.roles = IF adding THEN @ \cup {role_req_name}
                                           ELSE @ \ {role_req_name}]
         IN
         Ret(M, [T EXCEPT !.found = Append(@, cloned_role),
                          !.rec = Some(grp),
                          !.todo = rest,
                          !.pc = IF rest = <<>> THEN "persist" ELSE "scan"])

add_group(M, T, ok, pick) ==
    LET name == Lower(T.req.name) IN
    CASE T.pc = "start" ->
           IF name \in DOMAIN M.groups
           THEN Ret(M, Reply(T, Error("AlreadyExists")))
           ELSE LET members == {ToMember(m) : m \in T.req.members} IN
                Ret(M, [T EXCEPT !.rec = Some(NewGroup(name, T.req.desc, members, {})),
                                 !.todo = Lookups(T.req.roles, TRUE),
                                 !.pc = IF T.req.roles = <<>> THEN "persist" ELSE "scan"])
      [] T.pc = "scan" -> LinkRole(M, T, name)
      [] T.pc = "persist" ->
           IF ok
           THEN Ret(Save(M, "groups", name, T.rec[1]),
                    [T EXCEPT !.pc = "commit", !.ack = Ack("groups", name, T.rec, TRUE)])
           ELSE Ret(M, Reply(T, Error("Internal")))
      [] T.pc = "commit" ->
           LET M2 == [M EXCEPT !.groups = Put(@, name, T.rec[1])] IN
           IF T.found = <<>>
           THEN Ret(M2, Reply(T, Single("SingleGroup", T.rec[1])))
           ELSE Ret(M2, [T EXCEPT !.pc = "persist2"])
      [] T.pc \in {"persist2", "commit2"} ->
           Secondary(M, T, ok, "roles", Single("SingleGroup", T.rec[1]))

modify_group(M, T, ok, pick) ==
    LET name == Lower(T.req.name) IN
    CASE T.pc = "start" ->
           IF name \notin DOMAIN M.groups
           THEN Ret(M, Reply(T, Error("NotFound")))
           ELSE Ret(M, [T EXCEPT !.pc = "get"])
      [] T.pc = "get" ->
           IF name \notin DOMAIN M.groups
           THEN Ret(M, Panic(T))
           ELSE LET added == {ToMember(m) : m \in T.req.add_members}
                    removed == {ToMember(m) : m \in T.req.remove_members}
                    updated_group == [M.groups[name] EXCEPT
                                        !.members = (@ \cup added) \ removed]
                    todo == Lookups(T.req.add_roles, TRUE)
                              \o Lookups(T.req.remove_roles, FALSE)
                IN
                Ret(M, [T EXCEPT !.rec = Some(updated_group),
                                 !.todo = todo,
                                 !.pc = IF todo = <<>> THEN "persist" ELSE "scan"])
      [] T.pc = "scan" -> LinkRole(M, T, name)
      [] T.pc = "persist" ->
           IF ok
           THEN Ret(Save(M, "groups", name, T.rec[1]),
                    [T EXCEPT !.pc = "commit", !.ack = Ack("groups", name, T.rec, TRUE)])
           ELSE Ret(M, Reply(T, Error("Internal")))
      [] T.pc = "commit" ->
           LET M2 == [M EXCEPT !.groups = Put(@, name, T.rec[1])] IN
           IF T.found = <<>>
           THEN Ret(M2, Reply(T, Single("SingleGroup", T.rec[1])))
           ELSE Ret(M2, [T EXCEPT !.pc = "persist2"])
      [] T.pc \in {"persist2", "commit2"} ->
           Secondary(M, T, ok, "roles", Single("SingleGroup", T.rec[1]))

remove_group(M, T, ok, pick) ==
    LET name == Lower(T.req.name) IN
    CASE T.pc = "start" ->
           IF name \notin DOMAIN M.groups
           THEN Ret(M, Reply(T, Error("NotFound")))
           ELSE Ret(M, [T EXCEPT !.pc = "get"])
      [] T.pc = "get" ->
           IF name \notin DOMAIN M.groups
           THEN Ret(M, Panic(T))
           ELSE LET existing_group == M.groups[name] IN
                Ret(M, [T EXCEPT !.rec = Some(existing_group),
                                 !.pend = existing_group.roles,
                                 !.pc = IF existing_group.roles = {} THEN "persist" ELSE "scan"])
      [] T.pc = "scan" ->
           LET rest == T.pend \ {pick} IN
           IF pick \notin DOMAIN M.roles
           THEN Ret(M, Panic(T))
           ELSE LET cloned_role == [M.roles[pick] EXCEPT !.groups = @ \ {name}] IN
                Ret(M, [T EXCEPT !.found = Append(@, cloned_role),
                                 !.pend = rest,
                                 !.pc = IF rest = {} THEN "persist" ELSE "scan"])
      [] T.pc = "persist" ->
           IF ok
           THEN LET M2 == Remove(M, "groups", T.rec[1].name) IN
                IF T.found = <<>>
                THEN Ret(M2, Reply(T, Single("SingleGroup", T.rec[1])))
                ELSE Ret(M2, [T EXCEPT !.pc = "persist2",
                                       !.ack = Ack("groups", name, None, TRUE)])
           ELSE Ret(M, Reply(T, Error("Internal")))
      [] T.pc \in {"persist2", "commit2"} ->
           Secondary(M, T, ok, "roles", Single("SingleGroup", T.rec[1]))

get_groups(M, T, ok, pick) ==
    LET name_filter == T.req.name
        member_filter == T.req.member
        role_filter == T.req.role
        found_groups ==
            {M.groups[name] : name \in
               {n \in DOMAIN M.groups :
                  /\ name_filter # None => name_filter[1] = n
                  /\ member_filter # None => ToMember(member_filter[1]) \in M.groups[n].members
                  /\ role_filter # None => role_filter[1] \in M.groups[n].roles}}
    IN Ret(M, Reply(T, Multiple("MultipleGroups", found_groups)))

-----------------------------------------------------------------------------
(* Targets and actors                                                      *)

\* HashMap<String, AttributeValues> to HashMap<String, HashSet<String>>
ToAttributes(attrs) == [k \in DOMAIN attrs |-> attrs[k]]

\* RegisteredTarget::new
NewTarget(name, typestr, actions, attributes) ==
    [name |-> name, typestr |-> typestr, actions |-> actions, attributes |-> attributes]

\* RegisteredActor::new
NewActor(name, typestr, attributes) ==
    [name |-> name, typestr |-> typestr, attributes |-> attributes]

\* for attrib in req.add_attributes: entry(key).or_default().extend(values)
AddAttributes(attributes, adds) ==
    [k \in (DOMAIN attributes) \cup (DOMAIN adds) |->
        (IF k \in DOMAIN attributes THEN attributes[k] ELSE {})
        \cup (IF k \in DOMAIN adds THEN adds[k] ELSE {})]

\* The remove_attributes loop, were it to leave a key whose last value it
\* removed.
RemoveAttributesKeepingKeys(attributes, removes) ==
    [k \in DOMAIN attributes |->
        IF k \in DOMAIN removes THEN attributes[k] \ removes[k] ELSE attributes[k]]

\* for attrib in req.remove_attributes: remove the values of a key that is
\* present, and the key once no value is left
RemoveAttributes(attributes, removes) ==
    LET left(k) == IF k \in DOMAIN removes THEN attributes[k] \ removes[k]
                                           ELSE attributes[k]
        kept == {k \in DOMAIN attributes : k \in DOMAIN removes => left(k) # {}}
    IN [k \in kept |-> left(k)]

\* The map of one type, or no map when the type is unknown.
Typed(m, typestr) == IF typestr \in DOMAIN m THEN m[typestr] ELSE EmptyMap

\* typed.insert(name, record) / typed.remove(name) on the map of the type
PutTyped(m, typestr, name, rec) == Put(m, typestr, Put(Typed(m, typestr), name, rec))
DelTyped(m, typestr, name) == Put(m, typestr, Del(Typed(m, typestr), name))

\* AddEntity, were it to go on to the commit when the save fails.
AddEntityIgnoringError(M, T, ok, kind, single, new_rec) ==
    LET name == Lower(T.req.name)
        typestr == Lower(T.req.typestr)
    IN
    CASE T.pc = "start" ->
           LET M2 == [M EXCEPT ![kind] = Put(@, typestr, Typed(@, typestr))] IN
           IF name \in DOMAIN M2[kind][typestr]
           THEN Ret(M2, Reply(T, Error("AlreadyExists")))
           ELSE Ret(M2, [T EXCEPT !.pc = "persist", !.rec = Some(new_rec)])
      [] T.pc = "persist" ->
           Ret(IF ok THEN Save(M, kind, <<typestr, name>>, T.rec[1]) ELSE M,
               [T EXCEPT !.pc = "commit",
                         !.ack = Ack(kind, <<typestr, name>>, T.rec, ok)])
      [] T.pc = "commit" ->
           IF typestr \notin DOMAIN M[kind]
           THEN Ret(M, Panic(T))
           ELSE Ret([M EXCEPT ![kind] = PutTyped(@, typestr, name, T.rec[1])],
                    Reply(T, IF T.ack[1].ok THEN Single(single, T.rec[1])
                                            ELSE Error("Internal")))

\* The steps add_target and add_actor share; kind is "targets" or "actors".
AddEntity(M, T, ok, kind, single, new_rec) ==
    LET name == Lower(T.req.name)
        typestr == Lower(T.req.typestr)
    IN
    CASE T.pc = "start" ->
           \* entry(typestr).or_insert_with(HashMap::new) under the write lock
           LET M2 == [M EXCEPT ![kind] = Put(@, typestr, Typed(@, typestr))] IN
           IF name \in DOMAIN M2[kind][typestr]
           THEN Ret(M2, Reply(T, Error("AlreadyExists")))
           ELSE Ret(M2, [T EXCEPT !.pc = "persist", !.rec = Some(new_rec)])
      [] T.pc = "persist" ->
           IF ok
           THEN Ret(Save(M, kind, <<typestr, name>>, T.rec[1]),
                    [T EXCEPT !.pc = "commit",
                              !.ack = Ack(kind, <<typestr, name>>, T.rec, TRUE)])
           ELSE Ret(M, Reply(T, Error("Internal")))
      [] T.pc = "commit" ->
           IF typestr \notin DOMAIN M[kind]
           THEN Ret(M, Panic(T))
           ELSE Ret([M EXCEPT ![kind] = PutTyped(@, typestr, name, T.rec[1])],
                    Reply(T, Single(single, T.rec[1])))

\* The steps modify_target and modify_actor share.
ModifyEntity(M, T, ok, kind, single, updated) ==
    LET name == Lower(T.req.name)
        typestr == Lower(T.req.typestr)
    IN
    CASE T.pc = "start" ->
           IF typestr \notin DOMAIN M[kind]
           THEN Ret(M, Reply(T, Error("NotFound")))
           ELSE IF name \notin DOMAIN M[kind][typestr]
           THEN Ret(M, Reply(T, Error("NotFound")))
           ELSE Ret(M, [T EXCEPT !.pc = "persist", !.rec = Some(updated)])
      [] T.pc = "persist" ->
           IF ok
           THEN Ret(Save(M, kind, <<typestr, name>>, T.rec[1]),
                    [T EXCEPT !.pc = "commit",
                              !.ack = Ack(kind, <<typestr, name>>, T.rec, TRUE)])
           ELSE Ret(M, Reply(T, Error("Internal")))
      [] T.pc = "commit" ->
           IF typestr \notin DOMAIN M[kind]
           THEN Ret(M, Panic(T))
           ELSE Ret([M EXCEPT ![kind] = PutTyped(@, typestr, name, T.rec[1])],
                    Reply(T, Single(single, T.rec[1])))

\* The steps remove_target and remove_actor share.
RemoveEntity(M, T, ok, kind, single) ==
    LET name == Lower(T.req.name)
        typestr == Lower(T.req.typestr)
    IN
    CASE T.pc = "start" ->
           IF typestr \notin DOMAIN M[kind]
           THEN Ret(M, Reply(T, Error("NotFound")))
           ELSE IF name \notin DOMAIN M[kind][typestr]
           THEN Ret(M, Reply(T, Error("NotFound")))
           ELSE Ret(M, [T EXCEPT !.pc = "persist", !.rec = Some(M[kind][typestr][name])])
      [] T.pc = "persist" ->
           IF ok
           THEN Ret(Remove(M, kind, <<T.rec[1].typestr, T.rec[1].name>>),
                    [T EXCEPT !.pc = "commit",
                              !.ack = Ack(kind, <<typestr, name>>, None, TRUE)])
           ELSE Ret(M, Reply(T, Error("Internal")))
      [] T.pc = "commit" ->
           IF typestr \notin DOMAIN M[kind]
           THEN Ret(M, Panic(T))
           ELSE Ret([M EXCEPT ![kind] = DelTyped(@, typestr, name)],
                    Reply(T, Single(single, T.rec[1])))

\* The records get_targets and get_actors select.
Matching(m, type_filter, name_filter) ==
    LET typestr == IF type_filter = None THEN None ELSE Some(Lower(type_filter[1]))
        name == IF name_filter = None THEN None ELSE Some(Lower(name_filter[1]))
    IN UNION {{m[t][n] : n \in {x \in DOMAIN m[t] : name # None => x = name[1]}}
              : t \in {y \in DOMAIN m : typestr # None => y = typestr[1]}}

add_target(M, T, ok, pick) ==
    AddEntity(M, T, ok, "targets", "SingleTarget",
              NewTarget(Lower(T.req.name), Lower(T.req.typestr), T.req.actions,
                        ToAttributes(T.req.attributes)))

\* modify_target, were it to apply the remove lists before the add lists.
modify_target_removing_first(M, T, ok, pick) ==
    LET old == M.targets[Lower(T.req.typestr)][Lower(T.req.name)]
        actions == (old.actions \ {Lower(a) : a \in T.req.remove_actions})
                      \cup {Lower(a) : a \in T.req.add_actions}
        attributes == AddAttributes(RemoveAttributes(old.attributes, T.req.remove_attributes),
                                    T.req.add_attributes)
    IN ModifyEntity(M, T, ok, "targets", "SingleTarget",
                    [old EXCEPT !.actions = actions, !.attributes = attributes])

modify_target(M, T, ok, pick) ==
    LET old == M.targets[Lower(T.req.typestr)][Lower(T.req.name)]
        actions == (old.actions \cup {Lower(a) : a \in T.req.add_actions})
                      \ {Lower(a) : a \in T.req.remove_actions}
        attributes == RemoveAttributes(AddAttributes(old.attributes, T.req.add_attributes),
                                       T.req.remove_attributes)
    IN ModifyEntity(M, T, ok, "targets", "SingleTarget",
                    [old EXCEPT !.actions = actions, !.attributes = attributes])

remove_target(M, T, ok, pick) == RemoveEntity(M, T, ok, "targets", "SingleTarget")

get_targets(M, T, ok, pick) ==
    Ret(M, Reply(T, Multiple("MultipleTargets",
                             Matching(M.targets, T.req.typestr, T.req.name))))

add_actor(M, T, ok, pick) ==
    AddEntity(M, T, ok, "actors", "SingleActor",
              NewActor(Lower(T.req.name), Lower(T.req.typestr),
                       ToAttributes(T.req.attributes)))

modify_actor(M, T, ok, pick) ==
    LET old == M.actors[Lower(T.req.typestr)][Lower(T.req.name)]
        attributes == RemoveAttributes(AddAttributes(old.attributes, T.req.add_attributes),
                                       T.req.remove_attributes)
    IN ModifyEntity(M, T, ok, "actors", "SingleActor",
                    [old EXCEPT !.attributes = attributes])

remove_actor(M, T, ok, pick) == RemoveEntity(M, T, ok, "actors", "SingleActor")

\* Every group, whether or not the actor is a member of it.
GroupsOfAnyone(M, actor) == DOMAIN M.groups

\* The groups an actor is a member of.
GroupsOf(M, actor) ==
    {g \in DOMAIN M.groups :
        [name |-> actor.name, typestr |-> actor.typestr] \in M.groups[g].members}

expand_groups_and_roles(M, actor) ==
    LET gs == GroupsOf(M, actor)
        derived == [k \in {"member-of", "has-role"} |->
                      IF k = "member-of" THEN {M.groups[g].name : g \in gs}
                                         ELSE UNION {M.groups[g].roles : g \in gs}]
    IN IF gs = {} THEN actor
       ELSE [actor EXCEPT !.attributes = AddAttributes(@, derived)]

\* get_actors, were it to return the actors as they are stored.
get_actors_as_stored(M, T, ok, pick) ==
    Ret(M, Reply(T, Multiple("MultipleActors",
                             Matching(M.actors, T.req.typestr, T.req.name))))

get_actors(M, T, ok, pick) ==
    CASE T.pc = "start" ->
           LET matched == Matching(M.actors, T.req.typestr, T.req.name) IN
           IF matched = {}
           THEN Ret(M, Reply(T, Multiple("MultipleActors", {})))
           ELSE Ret(M, [T EXCEPT !.pc = "scan", !.pend = matched])
      [] T.pc = "scan" ->
           LET rest == T.pend \ {pick}
               found_actors == Append(T.found, expand_groups_and_roles(M, pick))
           IN
           IF rest = {}
           THEN Ret(M, Reply(T, Multiple("MultipleActors", Range(found_actors))))
           ELSE Ret(M, [T EXCEPT !.pend = rest, !.found = found_actors])

-----------------------------------------------------------------------------
(* Predicate library (src/src/lib/policy.rs)                               *)

\* StringCheck::check
StringCheck_check(sc, val) ==
    IF sc.op = "OneOf" THEN \E v \in sc.vals : v = val
                       ELSE ~(\E v \in sc.vals : v = val)

\* KvCheck::check, were a check with no values to pass on any present key.
KvCheck_check_vacuous(kv, attr_map) ==
    IF kv.op = "Has"
    THEN IF kv.key \notin DOMAIN attr_map THEN FALSE
         ELSE \A check_val \in kv.vals : check_val \in attr_map[kv.key]
    ELSE IF kv.key \notin DOMAIN attr_map THEN TRUE
         ELSE ~(\E check_val \in kv.vals : check_val \in attr_map[kv.key])

\* KvCheck::check
KvCheck_check(kv, attr_map) ==
    IF kv.op = "Has"
    THEN IF kv.key \notin DOMAIN attr_map THEN FALSE
         ELSE \E check_val \in kv.vals : check_val \in attr_map[kv.key]
    ELSE IF kv.key \notin DOMAIN attr_map THEN TRUE
         ELSE ~(\E check_val \in kv.vals : check_val \in attr_map[kv.key])

\* NumberCheck::check
NumberCheck_check(nc, num) ==
    CASE nc.op = "Equals" -> num = nc.val
      [] nc.op = "LessThan" -> num < nc.val
      [] nc.op = "MoreThan" -> num > nc.val

\* metro::hash64 of "{typestr}/{name}": a fixed function of the key, given
\* here by the values it takes on the keys of the model.
\* The keys of the table hash64: the actors the requests name, and one
\* entry for every other actor.
HashKey(typestr, name) ==
    IF typestr = "user" /\ name \in {"amy", "bob"} THEN name ELSE "other"

\* A u64 as four 16-bit limbs, most significant first.
U64(a, b, c, d) == <<a, b, c, d>>

\* The hash values of the actors unless a specification draws others:
\* 1234567, 7654350 and 424299.
DefaultHash == [amy |-> U64(0, 0, 18, 54919), bob |-> U64(0, 0, 116, 52174),
                other |-> U64(0, 0, 6, 31083)]

\* metro::hash64(format!("{}/{}", typestr, name))
metro_hash64(typestr, name) == hash64[HashKey(typestr, name)]

\* hash % 100 on a u64 (65536 % 100 = 36).
Rem100(hash) ==
    LET step(acc, limb) == ((acc * 36) + (limb % 100)) % 100
    IN step(step(step(step(0, hash[1]), hash[2]), hash[3]), hash[4])

\* u8::try_from(u64)
u8_try_from(n) == IF n \in 0..255 THEN Some(n) ELSE None

\* RegisteredActor::bucket before the unwrap, were it to reduce the hash
\* modulo 1000.
bucket_of_thousand(actor) ==
    LET h == hash64[IF actor.typestr = "user" /\ actor.name \in {"amy", "bob"}
                    THEN actor.name ELSE "other"]
        low == (((h[3] % 1000) * 536) + (h[4] % 1000)) % 1000
        rem == ((((h[1] % 1000) * 656) + ((h[2] % 1000) * 296) + low) % 1000)
    IN IF rem \in 0..255 THEN <<rem>> ELSE <<>>

\* RegisteredActor::bucket before the unwrap: None is the conversion that
\* fails.
bucket(actor) == u8_try_from(Rem100(metro_hash64(actor.typestr, actor.name)))

\* ActorCheck::check reaches the bucket check and the unwrap in
\* RegisteredActor::bucket panics.
ActorCheck_panics(ac, actor) ==
    /\ ac.name # None => StringCheck_check(ac.name[1], actor.name)
    /\ ac.typestr # None => StringCheck_check(ac.typestr[1], actor.typestr)
    /\ ~(\E a \in ac.attributes : ~KvCheck_check(a, actor.attributes))
    /\ ac.bucket # None
    /\ bucket(actor) = None

ActorCheck_check(ac, actor) ==
    /\ ac.name # None => StringCheck_check(ac.name[1], actor.name)
    /\ ac.typestr # None => StringCheck_check(ac.typestr[1], actor.typestr)
    /\ ~(\E a \in ac.attributes : ~KvCheck_check(a, actor.attributes))
    /\ ac.bucket # None =>
          bucket(actor) # None /\ NumberCheck_check(ac.bucket[1], bucket(actor)[1])

\* TargetCheck::check_attr_match
\* check_attr_match, were a key the target lacks to count as a match.
check_attr_match_lenient(attr_to_check, our_map, other_map) ==
    IF attr_to_check \notin DOMAIN our_map THEN TRUE
    ELSE IF attr_to_check \notin DOMAIN other_map THEN FALSE
    ELSE \E tav \in our_map[attr_to_check] : tav \in other_map[attr_to_check]

check_attr_match(attr_to_check, our_map, other_map) ==
    IF attr_to_check \notin DOMAIN our_map THEN FALSE
    ELSE IF attr_to_check \notin DOMAIN other_map THEN FALSE
    ELSE \E tav \in our_map[attr_to_check] : tav \in other_map[attr_to_check]

\* TargetCheck::check
TargetCheck_check(tc, target_name, target_type, target_attributes, target_action, actor_attributes, env_attributes) ==
    /\ tc.name # None => StringCheck_check(tc.name[1], target_name)
    /\ tc.typestr # None => StringCheck_check(tc.typestr[1], target_type)
    /\ ~(\E a \in tc.attributes : ~KvCheck_check(a, target_attributes))
    /\ \A attr_to_check \in tc.match_in_actor :
          check_attr_match(attr_to_check, target_attributes, actor_attributes)
    /\ \A attr_to_check \in tc.match_in_env :
          check_attr_match(attr_to_check, target_attributes, env_attributes)
    /\ tc.action # None => StringCheck_check(tc.action[1], target_action)

-----------------------------------------------------------------------------
(* Policies                                                                *)

\* impl From<protos::PolicyRule> for RegisteredPolicyRule
ToPolicy(rule) ==
    [name |-> rule.name, desc |-> rule.desc, actor_check |-> rule.actor_check,
     env_attributes |-> rule.env_attributes, target_check |-> rule.target_check,
     decision |-> rule.decision]

\* The steps add_policy and modify_policy share: adding requires the name to
\* be new, modifying requires it to exist.
PutPolicy(M, T, ok, adding) ==
    IF T.req.rule = None
    THEN Ret(M, Reply(T, Error("InvalidArgument")))
    ELSE
    LET rule == T.req.rule[1]
        name == Lower(rule.name)
        policy == ToPolicy(rule)
    IN
    CASE T.pc = "start" ->
           IF adding /\ name \in DOMAIN M.policies
           THEN Ret(M, Reply(T, Error("AlreadyExists")))
           ELSE IF ~adding /\ name \notin DOMAIN M.policies
           THEN Ret(M, Reply(T, Error("NotFound")))
           ELSE Ret(M, [T EXCEPT !.pc = "persist"])
      [] T.pc = "persist" ->
           IF ok
           THEN Ret(Save(M, "policies", policy.name, policy),
                    [T EXCEPT !.pc = "commit",
                              !.ack = Ack("policies", name, Some(policy), TRUE)])
           ELSE Ret(M, Reply(T, Error("Internal")))
      [] T.pc = "commit" ->
           Ret([M EXCEPT !.policies = Put(@, name, policy)],
               Reply(T, Single("SinglePolicy", policy)))

add_policy(M, T, ok, pick) == PutPolicy(M, T, ok, TRUE)

modify_policy(M, T, ok, pick) == PutPolicy(M, T, ok, FALSE)

remove_policy(M, T, ok, pick) ==
    LET name == Lower(T.req.name) IN
    CASE T.pc = "start" ->
           IF name \notin DOMAIN M.policies
           THEN Ret(M, Reply(T, Error("NotFound")))
           ELSE Ret(M, [T EXCEPT !.pc = "get"])
      [] T.pc = "get" ->
           IF name \notin DOMAIN M.policies
           THEN Ret(M, Panic(T))
           ELSE Ret(M, [T EXCEPT !.pc = "persist", !.rec = Some(M.policies[name])])
      [] T.pc = "persist" ->
           IF ok
           THEN Ret(Remove(M, "policies", name),
                    [T EXCEPT !.pc = "commit", !.ack = Ack("policies", name, None, TRUE)])
           ELSE Ret(M, Reply(T, Error("Internal")))
      [] T.pc = "commit" ->
           Ret([M EXCEPT !.policies = Del(@, name)],
               Reply(T, Single("SinglePolicy", T.rec[1])))

get_policies(M, T, ok, pick) ==
    LET req_name == IF T.req.name = None THEN None ELSE Some(Lower(T.req.name[1])) IN
    Ret(M, Reply(T, Multiple("MultiplePolicies",
           {M.policies[n] : n \in {x \in DOMAIN M.policies :
                                      req_name # None => x = req_name[1]}})))

-----------------------------------------------------------------------------
(* Check                                                                   *)

\* impl From<Actor> for RegisteredActor
ActorFrom(a) ==
    [name |-> Lower(a.name), typestr |-> Lower(a.typestr),
     attributes |-> ToAttributes(a.attributes)]

\* HashMap::extend: the entries of more replace those of attributes that
\* have the same key.
Extend(attributes, more) ==
    [k \in (DOMAIN attributes) \cup (DOMAIN more) |->
        IF k \in DOMAIN more THEN more[k] ELSE attributes[k]]

\* extend_actor up to its call of expand_groups_and_roles
extend_registered(M, actor) ==
    IF actor.typestr \in DOMAIN M.actors /\ actor.name \in DOMAIN M.actors[actor.typestr]
    THEN [actor EXCEPT
            !.attributes = Extend(@, M.actors[actor.typestr][actor.name].attributes)]
    ELSE actor

extend_actor(M, actor) == expand_groups_and_roles(M, extend_registered(M, actor))

get_target_attributes(M, name, typestr) ==
    IF typestr \in DOMAIN M.targets /\ name \in DOMAIN M.targets[typestr]
    THEN M.targets[typestr][name].attributes
    ELSE EmptyMap

\* Whether the rule's actor check, environment checks and target check all
\* pass: the three `continue` tests of the loop in check.
RuleMatches(policy, req, actor, env_attributes, target_attributes) ==
    /\ policy.actor_check # None => ActorCheck_check(policy.actor_check[1], actor)
    /\ \A ea \in policy.env_attributes : KvCheck_check(ea, env_attributes)
    /\ policy.target_check # None =>
          TargetCheck_check(policy.target_check[1], req.target_name, req.target_type,
                            target_attributes, req.target_action,
                            actor.attributes, env_attributes)

\* The loop of check, were it to go on after a matching Deny rule.
RECURSIVE DecideWithoutBreak(_, _, _, _, _, _, _)
DecideWithoutBreak(M, order, decision, req, actor, env_attributes, target_attributes) ==
    IF order = <<>> THEN decision
    ELSE LET policy == M.policies[Head(order)] IN
         DecideWithoutBreak(M, Tail(order),
             IF RuleMatches(policy, req, actor, env_attributes, target_attributes)
             THEN policy.decision ELSE decision,
             req, actor, env_attributes, target_attributes)

\* The loop of check over the policies in the order the map yields them.
RECURSIVE Decide(_, _, _, _, _, _, _)
Decide(M, order, decision, req, actor, env_attributes, target_attributes) ==
    IF order = <<>> THEN decision
    ELSE LET policy == M.policies[Head(order)] IN
         IF policy.actor_check # None /\ ActorCheck_panics(policy.actor_check[1], actor)
         THEN "Panicked"
         ELSE IF ~RuleMatches(policy, req, actor, env_attributes, target_attributes)
         THEN Decide(M, Tail(order), decision, req, actor, env_attributes, target_attributes)
         ELSE IF policy.decision = "Deny"
         THEN "Deny"
         ELSE Decide(M, Tail(order), policy.decision, req, actor, env_attributes,
                     target_attributes)

\* A check that starts from Allow.
InitialDecisionAllow == "Allow"

\* The decision a check starts from.
InitialDecision == "Deny"

check(M, T, ok, pick) ==
    CASE T.pc = "start" ->
           IF T.req.actor = None
           THEN Ret(M, Panic(T))
           ELSE Ret(M, [T EXCEPT !.pc = "groups",
                                 !.rec = Some(extend_registered(M, ActorFrom(T.req.actor[1])))])
      [] T.pc = "groups" ->
           Ret(M, [T EXCEPT !.pc = "target",
                            !.rec = Some(expand_groups_and_roles(M, T.rec[1]))])
      [] T.pc = "target" ->
           Ret(M, [T EXCEPT !.pc = "rules",
                            !.found = <<get_target_attributes(M, T.req.target_name,
                                                              T.req.target_type)>>])
      [] T.pc = "rules" ->
           LET decision == Decide(M, pick, InitialDecision, T.req, T.rec[1],
                                  ToAttributes(T.req.env_attributes), T.found[1])
           IN IF decision = "Panicked"
              THEN Ret(M, Panic(T))
              ELSE Ret(M, [Reply(T, Multiple("CheckResult", {decision})) EXCEPT
                              !.rec = T.rec, !.found = T.found])

-----------------------------------------------------------------------------
(* Updates from the backend                                                *)

\* Datastore::update on the maps: a Put inserts the record under its own
\* name (and type), a Delete removes the key; nothing is persisted.
Updated(M, u) ==
    CASE u.op = "PutActor" ->
           [M EXCEPT !.actors = PutTyped(@, u.rec.typestr, u.rec.name, u.rec)]
      [] u.op = "PutTarget" ->
           [M EXCEPT !.targets = PutTyped(@, u.rec.typestr, u.rec.name, u.rec)]
      [] u.op = "PutGroup" -> [M EXCEPT !.groups = Put(@, u.rec.name, u.rec)]
      [] u.op = "PutPolicyRule" -> [M EXCEPT !.policies = Put(@, u.rec.name, u.rec)]
      [] u.op = "PutRole" -> [M EXCEPT !.roles = Put(@, u.rec.name, u.rec)]
      [] u.op = "DeleteActor" ->
           IF u.typestr \in DOMAIN M.actors
           THEN [M EXCEPT !.actors = DelTyped(@, u.typestr, u.name)] ELSE M
      [] u.op = "DeleteTarget" ->
           IF u.typestr \in DOMAIN M.targets
           THEN [M EXCEPT !.targets = DelTyped(@, u.typestr, u.name)] ELSE M
      [] u.op = "DeleteGroup" -> [M EXCEPT !.groups = Del(@, u.name)]
      [] u.op = "DeletePolicyRule" -> [M EXCEPT !.policies = Del(@, u.name)]
      [] u.op = "DeleteRole" -> [M EXCEPT !.roles = Del(@, u.name)]

\* update, were it to save the group of a PutGroup back to the backend.
update_persisting(M, T, ok, pick) ==
    LET u == T.req.update
        M2 == Updated(M, u)
    IN Ret(IF u.op = "PutGroup" THEN Save(M2, "groups", u.rec.name, u.rec) ELSE M2,
           [IdleTask EXCEPT !.pc = "done", !.req = T.req])

\* The task Datastore::run spawns for DsRequest::Update: it has no reply
\* channel and ends when the map is written.
update(M, T, ok, pick) ==
    Ret(Updated(M, T.req.update), [IdleTask EXCEPT !.pc = "done", !.req = T.req])

-----------------------------------------------------------------------------
(* Datastore::run and the handler tasks                                    *)

Handler(M, T, ok, pick) ==
    CASE T.req.op = "AddTarget" -> add_target(M, T, ok, pick)
      [] T.req.op = "ModifyTarget" -> modify_target(M, T, ok, pick)
      [] T.req.op = "RemoveTarget" -> remove_target(M, T, ok, pick)
      [] T.req.op = "GetTargets" -> get_targets(M, T, ok, pick)
      [] T.req.op = "AddActor" -> add_actor(M, T, ok, pick)
      [] T.req.op = "ModifyActor" -> modify_actor(M, T, ok, pick)
      [] T.req.op = "RemoveActor" -> remove_actor(M, T, ok, pick)
      [] T.req.op = "GetActors" -> get_actors(M, T, ok, pick)
      [] T.req.op = "AddRole" -> add_role(M, T, ok, pick)
      [] T.req.op = "RemoveRole" -> remove_role(M, T, ok, pick)
      [] T.req.op = "GetRoles" -> get_roles(M, T, ok, pick)
      [] T.req.op = "AddGroup" -> add_group(M, T, ok, pick)
      [] T.req.op = "ModifyGroup" -> modify_group(M, T, ok, pick)
      [] T.req.op = "RemoveGroup" -> remove_group(M, T, ok, pick)
      [] T.req.op = "GetGroups" -> get_groups(M, T, ok, pick)
      [] T.req.op = "AddPolicy" -> add_policy(M, T, ok, pick)
      [] T.req.op = "ModifyPolicy" -> modify_policy(M, T, ok, pick)
      [] T.req.op = "RemovePolicy" -> remove_policy(M, T, ok, pick)
      [] T.req.op = "GetPolicies" -> get_policies(M, T, ok, pick)
      [] T.req.op = "Check" -> check(M, T, ok, pick)
      [] T.req.op = "Update" -> update(M, T, ok, pick)

\* The orders in which a HashMap with these keys can be iterated.
Orders(S) == {s \in [1..Cardinality(S) -> S] : Range(s) = S}

\* The kind of record a write request is for.
KindOf(op) ==
    CASE op \in {"AddTarget", "ModifyTarget", "RemoveTarget"} -> "targets"
      [] op \in {"AddActor", "ModifyActor", "RemoveActor"} -> "actors"
      [] op \in {"AddRole", "RemoveRole"} -> "roles"
      [] op \in {"AddGroup", "ModifyGroup", "RemoveGroup"} -> "groups"
      [] op \in {"AddPolicy", "ModifyPolicy", "RemovePolicy"} -> "policies"

\* The map a backend update is applied to.
UpdateKind(u) ==
    CASE u.op \in {"PutActor", "DeleteActor"} -> "actors"
      [] u.op \in {"PutTarget", "DeleteTarget"} -> "targets"
      [] u.op \in {"PutGroup", "DeleteGroup"} -> "groups"
      [] u.op \in {"PutRole", "DeleteRole"} -> "roles"
      [] u.op \in {"PutPolicyRule", "DeletePolicyRule"} -> "policies"

\* Held, were modify_actor and remove_actor to keep the read guard they
\* clone the stored actor under until the handler returns.
HeldThroughSave(T) ==
    CASE T.req.op \in {"GetActors"} /\ T.pc = "scan" -> {"actors"}
      [] T.req.op = "Check" /\ T.pc = "groups" -> {"actors"}
      [] T.req.op \in {"ModifyActor", "RemoveActor"} /\ T.pc \in {"persist", "commit"} -> {"actors"}
      [] OTHER -> {}

\* The maps whose RwLock guard a task holds while it is suspended between
\* two steps. Every guard of a writing handler is a temporary or is dropped
\* before the storage call; get_actors keeps `actors` over the loop that
\* awaits expand_groups_and_roles, and extend_actor keeps it over the same
\* call. Both guards are read guards.
Held(T) ==
    CASE T.req.op = "GetActors" /\ T.pc = "scan" -> {"actors"}
      [] T.req.op = "Check" /\ T.pc = "groups" -> {"actors"}
      [] OTHER -> {}

\* The maps the next step of a task takes the write guard of.
Acquires(T) ==
    CASE T.req.op = "Update" -> {UpdateKind(T.req.update)}
      [] T.req.op \in {"AddTarget", "AddActor"} /\ T.pc \in {"start", "commit"} ->
           {KindOf(T.req.op)}
      [] T.req.op \in {"ModifyTarget", "RemoveTarget", "ModifyActor", "RemoveActor",
                       "AddRole", "RemoveRole", "AddGroup", "ModifyGroup",
                       "AddPolicy", "ModifyPolicy", "RemovePolicy"} /\ T.pc = "commit" ->
           {KindOf(T.req.op)}
      [] T.req.op \in {"AddGroup", "ModifyGroup", "RemoveGroup"} /\ T.pc = "commit2" ->
           {"roles"}
      [] T.req.op = "RemoveRole" /\ T.pc = "commit2" -> {"groups"}
      [] OTHER -> {}

\* RwLock::write returns only once no other task holds a guard of the map.
CanLock(t) ==
    \A u \in TaskIds \ {t} : Acquires(tasks[t]) \cap Held(tasks[u]) = {}

\* What the next step of a task can draw from an unordered collection.
Picks(M, T) ==
    IF T.pend # {} THEN T.pend
    ELSE IF T.req.op = "Check" /\ T.pc = "rules" THEN Orders(DOMAIN M.policies)
    ELSE {None}

Running(T) == T.pc \notin {"idle", "queued", "done", "panicked"}

\* The task is waiting for a storage call to return.
InStorageCall(T) == T.pc \in {"persist", "persist2"}

Apply(r, t) ==
    /\ targets' = r.m.targets
    /\ actors' = r.m.actors
    /\ roles' = r.m.roles
    /\ groups' = r.m.groups
    /\ policies' = r.m.policies
    /\ disk' = r.m.disk
    /\ tasks' = [tasks EXCEPT ![t] = r.t]

\* The views the five unfiltered Get requests return.
Views(M) ==
    [targets |-> Matching(M.targets, None, None),
     actors |-> {expand_groups_and_roles(M, a) : a \in Matching(M.actors, None, None)},
     roles |-> {M.roles[r] : r \in DOMAIN M.roles},
     groups |-> {M.groups[g] : g \in DOMAIN M.groups},
     policies |-> {M.policies[n] : n \in DOMAIN M.policies}]

\* One step of the handler task t runs; every storage call returns Ok.
Step(t) ==
    /\ Running(tasks[t])
    /\ CanLock(t)
    /\ \E pick \in Picks(Mem, tasks[t]) : Apply(Handler(Mem, tasks[t], TRUE, pick), t)
    /\ UNCHANGED <<inbox, snap, focus, hash64, rpc, watch>>

\* The storage call task t is waiting for returns Err.
StorageError(t) ==
    /\ Running(tasks[t])
    /\ InStorageCall(tasks[t])
    /\ Apply(Handler(Mem, tasks[t], FALSE, None), t)
    /\ UNCHANGED <<inbox, snap, focus, hash64, rpc, watch>>

\* Datastore::run: take the next request from the inbox and spawn its handler.
Run ==
    /\ inbox # <<>>
    /\ tasks' = [tasks EXCEPT ![Head(inbox)].pc = "start"]
    /\ inbox' = Tail(inbox)
    /\ UNCHANGED <<maps, disk, snap, focus, hash64, rpc, watch>>

-----------------------------------------------------------------------------
(* The requests callers send                                               *)

Attr(k, vals) == [x \in {k} |-> vals]

TargetNames == {"t1", "T1", "t2"}
TargetTypes == {"db", "DB"}

TargetRequests ==
    [op : {"AddTarget"}, name : TargetNames, typestr : TargetTypes,
     actions : {{}, {"READ"}}, attributes : {EmptyMap, Attr("env", {"prod"})}]
    \cup [op : {"ModifyTarget"}, name : TargetNames, typestr : {"db"},
          add_actions : {{}, {"READ"}}, remove_actions : {{}, {"read"}},
          add_attributes : {EmptyMap, Attr("env", {"dev"})},
          remove_attributes : {EmptyMap, Attr("env", {"prod"})}]
    \cup [op : {"RemoveTarget"}, name : TargetNames, typestr : TargetTypes]
    \cup [op : {"GetTargets"}, name : {None, Some("T1")}, typestr : {None, Some("DB")}]

ActorNames == {"amy", "AMY", "bob"}
ActorTypes == {"user", "USER"}

ActorRequests ==
    [op : {"AddActor"}, name : ActorNames, typestr : ActorTypes,
     attributes : {EmptyMap, Attr("role", {"admin"}), Attr("role", {})}]
    \cup [op : {"ModifyActor"}, name : ActorNames, typestr : {"user"},
          add_attributes : {EmptyMap, Attr("role", {"dev"}), Attr("team", {})},
          remove_attributes : {EmptyMap, Attr("role", {"admin"})}]
    \cup [op : {"RemoveActor"}, name : ActorNames, typestr : ActorTypes]
    \cup [op : {"GetActors"}, name : {None, Some("AMY")}, typestr : {None, Some("USER")}]

RoleRequests ==
    [op : {"AddRole", "RemoveRole"}, name : RoleNames \cup {"R1"}]
    \cup [op : {"GetRoles"}, name : {None, Some("r1"), Some("R1")}]

GroupRequests ==
    [op : {"AddGroup"}, name : GroupNames \cup {"G1"}, desc : {None},
     members : SUBSET Members, roles : {<<>>, <<"r1">>, <<"R1", "r2">>}]
    \cup [op : {"ModifyGroup"}, name : GroupNames \cup {"G1"}, desc : {Some("d")},
          add_members : SUBSET Members, remove_members : SUBSET Members,
          add_roles : {<<>>, <<"r2">>}, remove_roles : {<<>>, <<"r1">>}]
    \cup [op : {"RemoveGroup"}, name : GroupNames \cup {"G1"}]
    \cup [op : {"GetGroups"}, name : {None, Some("g1"), Some("G1")},
          member : {None} \cup {Some(m) : m \in Members}, role : {None, Some("r1")}]

\* StringCheck, KvCheck, ActorCheck and TargetCheck messages
OneOf(vals) == [op |-> "OneOf", vals |-> vals]
Has(key, vals) == [op |-> "Has", key |-> key, vals |-> vals]
ActorIs(name, attrs) ==
    [name |-> name, typestr |-> None, attributes |-> attrs, bucket |-> None]
TargetIs(action) ==
    [name |-> None, typestr |-> None, attributes |-> {}, match_in_actor |-> {},
     match_in_env |-> {}, action |-> action]

Rule(name, actor_check, target_check, decision) ==
    [name |-> name, desc |-> None, actor_check |-> actor_check, env_attributes |-> {},
     target_check |-> target_check, decision |-> decision]

Rules ==
    {Rule(n, ac, None, d) : n \in {"p1", "P1", "p2"},
                            ac \in {None, Some(ActorIs(Some(OneOf({"amy"})), {}))},
                            d \in {"Allow", "Deny"}}

PolicyRequests ==
    [op : {"AddPolicy", "ModifyPolicy"}, rule : {None} \cup {Some(r) : r \in Rules}]
    \cup [op : {"RemovePolicy"}, name : {"p1", "P1", "p2"}]
    \cup [op : {"GetPolicies"}, name : {None, Some("P1")}]

CheckRequests ==
    [op : {"Check"},
     actor : {Some([name |-> n, typestr |-> "user", attributes |-> a]) :
                 n \in {"amy", "AMY"}, a \in {EmptyMap, Attr("role", {"admin"})}},
     env_attributes : {EmptyMap},
     target_name : {"t1", "T1"}, target_type : {"db"}, target_action : {"read", "write"}]
    \cup [op : {"GetActors"}, name : {None, Some("AMY")}, typestr : {None}]

\* Add requests whose name or typestr may be the empty string.
SvcRequests ==
    [op : {"AddTarget"}, name : {"", "t1"}, typestr : {"", "db"}, actions : {{}},
     attributes : {EmptyMap}]
    \cup [op : {"AddActor"}, name : {"", "amy"}, typestr : {"", "user"},
          attributes : {EmptyMap}]
    \cup [op : {"AddRole"}, name : {"", "r1"}]
    \cup [op : {"AddGroup"}, name : {"", "g1"}, desc : {None}, members : {{}}, roles : {<<>>}]
    \cup [op : {"AddPolicy"}, rule : {Some(Rule(n, None, None, "Allow")) : n \in {"", "p1"}}]

\* The request families a run is restricted to.
Families == {"targets", "actors", "groups", "policies"}

HasNot(key, vals) == [op |-> "HasNot", key |-> key, vals |-> vals]

\* The Check requests of a family of policy-evaluation runs.
RuleChecks(f) ==
    [op : {"Check"},
     actor : {Some([name |-> n, typestr |-> ty, attributes |-> a]) :
                 <<ty, n>> \in (IF f = "bucket" THEN {<<"user", "amy">>, <<"user", "bob">>,
                                                     <<"svc", "amy">>}
                                ELSE {<<"user", "amy">>}),
                 a \in (CASE f = "bucket" -> {EmptyMap, Attr("role", {"admin"})}
                          [] f = "match" -> {EmptyMap, Attr("team", {"ops"}), Attr("team", {"dev"})}
                          [] f = "forge" -> {EmptyMap, Attr("has-role", {"r1"}),
                                             Attr("member-of", {"g1"}), Attr("role", {"admin"})}
                          [] OTHER -> {EmptyMap})},
     env_attributes : (CASE f = "kv" -> {EmptyMap, Attr("env", {"prod"}), Attr("env", {"dev"}),
                                        Attr("env", {}), Attr("region", {"prod"})}
                         [] f = "match" -> {EmptyMap, Attr("env", {"prod"}), Attr("env", {"dev"})}
                         [] OTHER -> {EmptyMap}),
     target_name : {"t1"}, target_type : {"db"}, target_action : {"read"}]

\* Writes that touch one target, one role and the groups that list it.
RaceRequests ==
    [op : {"ModifyTarget"}, name : {"t1"}, typestr : {"db"},
     add_actions : {{"read"}, {"write"}}, remove_actions : {{}},
     add_attributes : {EmptyMap}, remove_attributes : {EmptyMap}]
    \cup [op : {"AddGroup"}, name : {"g1", "g2"}, desc : {None}, members : {{}},
          roles : {<<"r1">>}]
    \cup [op : {"ModifyGroup"}, name : {"g0"}, desc : {None},
          add_members : {{[name |-> n, typestr |-> "user"]} : n \in {"amy", "bob"}},
          remove_members : {{}}, add_roles : {<<>>}, remove_roles : {<<>>}]
    \cup [op : {"RemoveGroup"}, name : {"g0"}]
    \cup [op : {"RemoveRole"}, name : {"r1"}]

Requests(f) ==
    CASE f = "targets" -> TargetRequests
      [] f = "actors" -> ActorRequests
      [] f = "groups" -> RoleRequests \cup GroupRequests
      [] f = "policies" -> PolicyRequests
      [] f = "roles" -> RoleRequests
      [] f = "check" -> CheckRequests
      [] f = "svc" -> SvcRequests
      [] f = "watch" -> [op : {"GetActors"}, name : {None}, typestr : {None}]
      [] f \in {"bucket", "kv", "match", "forge"} -> RuleChecks(f)
      [] f = "race" -> RaceRequests

Kinds == {"targets", "actors", "roles", "groups", "policies"}

\* The keys under which a map of the datastore holds a record.
Keys(M, kind) ==
    IF kind \in {"targets", "actors"}
    THEN UNION {{<<ty, n>> : n \in DOMAIN M[kind][ty]} : ty \in DOMAIN M[kind]}
    ELSE DOMAIN M[kind]

\* The record a map holds under a key, if any.
Entry(M, kind, key) ==
    IF key \notin Keys(M, kind) THEN None
    ELSE IF kind \in {"targets", "actors"} THEN Some(M[kind][key[1]][key[2]])
    ELSE Some(M[kind][key])

-----------------------------------------------------------------------------
(* Initial states and actions                                              *)

\* The watch on the backend's change stream (storage/etcd.rs): the last
\* revision it processed and, for the record, how many times it forwarded the
\* events of each revision.  Unwatched is a backend with no change stream.
MaxRev == 2
Revs == 1..MaxRev
Unwatched == [last_rev |-> 0, forwarded |-> [r \in Revs |-> 0], events |-> <<>>]

\* Datastore::new over an empty backend
InitEmpty ==
    /\ targets = EmptyMap
    /\ actors = EmptyMap
    /\ roles = EmptyMap
    /\ groups = EmptyMap
    /\ policies = EmptyMap
    /\ disk = EmptyDisk
    /\ tasks = [t \in TaskIds |-> IdleTask]
    /\ inbox = <<>>
    /\ snap = Views(Mem)
    /\ hash64 = DefaultHash
    /\ rpc = [t \in TaskIds |-> "none"]
    /\ watch = Unwatched

Init == InitEmpty /\ focus \in Families

\* A caller that waits for each reply before it sends the next request
\* (svc.rs call_datastore): the request enters the inbox.
Call ==
    /\ inbox = <<>>
    /\ \A t \in TaskIds : ~Running(tasks[t]) /\ tasks[t].pc # "queued"
    /\ \E req \in Requests(focus) :
          tasks' = [tasks EXCEPT ![1] = [IdleTask EXCEPT !.pc = "queued", !.req = req]]
    /\ inbox' = <<1>>
    /\ snap' = Views(Mem)
    /\ UNCHANGED <<maps, disk, focus, hash64, rpc, watch>>

AddTarget(t) == tasks[t].req.op = "AddTarget" /\ Step(t)
ModifyTarget(t) == tasks[t].req.op = "ModifyTarget" /\ Step(t)
RemoveTarget(t) == tasks[t].req.op = "RemoveTarget" /\ Step(t)
GetTargets(t) == tasks[t].req.op = "GetTargets" /\ Step(t)
AddActor(t) == tasks[t].req.op = "AddActor" /\ Step(t)
ModifyActor(t) == tasks[t].req.op = "ModifyActor" /\ Step(t)
RemoveActor(t) == tasks[t].req.op = "RemoveActor" /\ Step(t)
GetActors(t) == tasks[t].req.op = "GetActors" /\ Step(t)
AddRole(t) == tasks[t].req.op = "AddRole" /\ Step(t)
RemoveRole(t) == tasks[t].req.op = "RemoveRole" /\ Step(t)
GetRoles(t) == tasks[t].req.op = "GetRoles" /\ Step(t)
AddGroup(t) == tasks[t].req.op = "AddGroup" /\ Step(t)
ModifyGroup(t) == tasks[t].req.op = "ModifyGroup" /\ Step(t)
RemoveGroup(t) == tasks[t].req.op = "RemoveGroup" /\ Step(t)
GetGroups(t) == tasks[t].req.op = "GetGroups" /\ Step(t)
AddPolicy(t) == tasks[t].req.op = "AddPolicy" /\ Step(t)
ModifyPolicy(t) == tasks[t].req.op = "ModifyPolicy" /\ Step(t)
RemovePolicy(t) == tasks[t].req.op = "RemovePolicy" /\ Step(t)
GetPolicies(t) == tasks[t].req.op = "GetPolicies" /\ Step(t)
Check(t) == tasks[t].req.op = "Check" /\ Step(t)
Update(t) == tasks[t].req.op = "Update" /\ Step(t)

\* The handlers of the four request families, with every storage call Ok.
NextOk ==
    \/ Call
    \/ Run
    \/ \E t \in TaskIds :
         \/ AddTarget(t) \/ ModifyTarget(t) \/ RemoveTarget(t) \/ GetTargets(t)
         \/ AddActor(t) \/ ModifyActor(t) \/ RemoveActor(t) \/ GetActors(t)
         \/ AddRole(t) \/ RemoveRole(t) \/ GetRoles(t)
         \/ AddGroup(t) \/ ModifyGroup(t) \/ RemoveGroup(t) \/ GetGroups(t)
         \/ AddPolicy(t) \/ ModifyPolicy(t) \/ RemovePolicy(t) \/ GetPolicies(t)

Next == NextOk \/ \E t \in TaskIds : StorageError(t)

\* Sequential callers over a backend whose calls may fail.
Spec == Init /\ [][Next]_vars

\* Sequential callers over a backend that never fails.
SpecOk == Init /\ [][NextOk]_vars

-----------------------------------------------------------------------------
(* Check requests against a datastore loaded from the backend              *)

CheckRules ==
    {Rule("p1", Some(ActorIs(Some(OneOf({"amy"})), {})), None, "Allow"),
     Rule("p2", Some(ActorIs(None, {Has("role", {"banned"})})), None, "Deny"),
     Rule("p3", None,
          Some([TargetIs(Some(OneOf({"read"}))) EXCEPT !.attributes = {Has("env", {"prod"})}]),
          "Allow"),
     Rule("p4", Some(ActorIs(None, {Has("has-role", {"r1"})})), None, "Deny")}

\* The policy maps load_policies can return.
LoadedPolicies ==
    {[n \in {r.name : r \in S} |-> ToPolicy(CHOOSE r \in S : r.name = n)] :
        S \in SUBSET CheckRules}

\* The group maps load_groups can return: g1 and g2, each absent or present.
LoadedGroups ==
    LET amy == [name |-> "amy", typestr |-> "user"]
        bob == [name |-> "bob", typestr |-> "user"]
        AMY == [name |-> "AMY", typestr |-> "user"]
        g1s == {None} \cup {Some(NewGroup("g1", None, ms, rs)) :
                               ms \in {{amy}, {bob}}, rs \in {{}, {"r1"}}}
        g2s == {None} \cup {Some(NewGroup("g2", None, ms, {"r2"})) :
                               ms \in {{amy}, {amy, bob}, {AMY}}}
    IN {[g \in {x \in {"g1", "g2"} : (IF x = "g1" THEN a ELSE b) # None} |->
            IF g = "g1" THEN a[1] ELSE b[1]] : a \in g1s, b \in g2s}

\* The role map that goes with a group map.
RolesOf(gs) ==
    [r \in UNION {gs[g].roles : g \in DOMAIN gs} |->
        [name |-> r, groups |-> {g \in DOMAIN gs : r \in gs[g].roles}]]

LoadedActors ==
    {EmptyMap} \cup {PutTyped(EmptyMap, "user", "amy", NewActor("amy", "user", a)) :
                       a \in {Attr("role", {"banned"}), Attr("team", {"ops"})}}

LoadedTargets ==
    {EmptyMap,
     PutTyped(EmptyMap, "db", "t1", NewTarget("t1", "db", {"read"}, Attr("env", {"prod"})))}

\* What the backend holds when the maps were loaded from it.
DiskOf(M) ==
    [kind \in Kinds |-> [key \in Keys(M, kind) |-> Entry(M, kind, key)[1]]]

\* Datastore::new over a backend that holds records
InitCheck ==
    /\ targets \in LoadedTargets
    /\ actors \in LoadedActors
    /\ groups \in LoadedGroups
    /\ roles = RolesOf(groups)
    /\ policies \in LoadedPolicies
    /\ disk = DiskOf([targets |-> targets, actors |-> actors, roles |-> roles,
                      groups |-> groups, policies |-> policies])
    /\ tasks = [t \in TaskIds |-> IdleTask]
    /\ inbox = <<>>
    /\ snap = Views(Mem)
    /\ focus = "check"
    /\ hash64 = DefaultHash
    /\ rpc = [t \in TaskIds |-> "none"]
    /\ watch = Unwatched

NextCheck == Call \/ Run \/ \E t \in TaskIds : Check(t) \/ GetActors(t)

\* Check and GetActors requests, one at a time, against a loaded datastore.
SpecCheck == InitCheck /\ [][NextCheck]_vars

-----------------------------------------------------------------------------
(* Policy evaluation                                                       *)

RuleFamilies == {"bucket", "kv", "match", "forge"}

\* The rules a family of runs loads policies from.
FamilyRules(f) ==
    CASE f = "bucket" ->
           {Rule("b1", Some([ActorIs(None, {}) EXCEPT !.bucket = Some([op |-> "LessThan", val |-> 50])]),
                 None, "Allow"),
            Rule("b2", Some([ActorIs(None, {}) EXCEPT !.bucket = Some([op |-> "MoreThan", val |-> 98])]),
                 None, "Deny")}
      [] f = "kv" ->
           {[Rule("k1", None, None, "Allow") EXCEPT !.env_attributes = {kv}] :
               kv \in {Has("env", {}), Has("env", {"prod"}), Has("env", {"prod", "test"}),
                       HasNot("env", {}), HasNot("env", {"prod"}), HasNot("env", {"prod", "test"})}}
      [] f = "match" ->
           {Rule("m1", None,
                 Some([TargetIs(None) EXCEPT !.match_in_actor = ma, !.match_in_env = me]),
                 "Allow") :
               ma \in {{}, {"team"}}, me \in {{}, {"env"}}}
      [] f = "forge" ->
           {Rule("f1", Some(ActorIs(None, {kv})), None, "Allow") :
               kv \in {Has("has-role", {"r1"}), Has("member-of", {"g1"})}}

\* The values metro::hash64 can return for an actor key: 0, 99, 100, 255,
\* 256, 2^63 and 2^64 - 1.
HashSamples ==
    {U64(0, 0, 0, 0), U64(0, 0, 0, 99), U64(0, 0, 0, 100), U64(0, 0, 0, 255),
     U64(0, 0, 0, 256), U64(32768, 0, 0, 0), U64(65535, 65535, 65535, 65535)}

\* Datastore::new over a backend that holds the policies, actors, groups
\* and targets of one family of runs.
InitRules ==
    /\ focus \in RuleFamilies
    /\ hash64 \in IF focus = "bucket"
                  THEN {[DefaultHash EXCEPT !.amy = h, !.other = g] : h, g \in HashSamples}
                  ELSE {DefaultHash}
    /\ policies \in IF focus = "bucket"
                    THEN {[n \in {r.name : r \in S} |-> ToPolicy(CHOOSE r \in S : r.name = n)] :
                             S \in SUBSET FamilyRules(focus)}
                    ELSE {[n \in {r.name} |-> ToPolicy(r)] : r \in FamilyRules(focus)}
    /\ actors \in IF focus \in {"bucket", "match"}
                  THEN {EmptyMap,
                        PutTyped(EmptyMap, "user", "amy", NewActor("amy", "user", Attr("team", {"ops"})))}
                  ELSE {EmptyMap}
    /\ groups \in IF focus = "forge"
                  THEN {EmptyMap} \cup
                       {[g \in {"g1"} |-> NewGroup("g1", None, {[name |-> n, typestr |-> "user"]}, rs)] :
                           n \in {"amy", "bob"}, rs \in {{}, {"r1"}}}
                  ELSE {EmptyMap}
    /\ roles = RolesOf(groups)
    /\ targets \in IF focus = "match"
                   THEN {EmptyMap} \cup
                        {PutTyped(EmptyMap, "db", "t1", NewTarget("t1", "db", {"read"}, a)) :
                            a \in {EmptyMap, Attr("team", {"ops"}), Attr("env", {"prod"}),
                                   [k \in {"team", "env"} |-> IF k = "team" THEN {"ops"} ELSE {"prod"}]}}
                   ELSE {EmptyMap}
    /\ disk = DiskOf([targets |-> targets, actors |-> actors, roles |-> roles,
                      groups |-> groups, policies |-> policies])
    /\ tasks = [t \in TaskIds |-> IdleTask]
    /\ inbox = <<>>
    /\ snap = Views(Mem)
    /\ rpc = [t \in TaskIds |-> "none"]
    /\ watch = Unwatched

NextRules == Call \/ Run \/ \E t \in TaskIds : Check(t)

\* Check requests, one at a time, against the policies of one family.
SpecRules == InitRules /\ [][NextRules]_vars

-----------------------------------------------------------------------------
(* One caller that does not wait for replies                               *)

InitConc == InitEmpty /\ focus = "roles"

\* The caller sends its next request into the inbox (flume::Sender::send)
\* while earlier ones may still be queued or being handled.
Send ==
    \E t \in TaskIds :
       /\ tasks[t].pc = "idle"
       /\ \A u \in TaskIds : u < t => tasks[u].pc # "idle"
       /\ \E req \in Requests(focus) :
             tasks' = [tasks EXCEPT ![t] = [IdleTask EXCEPT !.pc = "queued", !.req = req]]
       /\ inbox' = Append(inbox, t)
       /\ UNCHANGED <<maps, disk, snap, focus, hash64, rpc, watch>>

NextConc ==
    \/ Send
    \/ Run
    \/ \E t \in TaskIds : AddRole(t) \/ RemoveRole(t) \/ GetRoles(t)

\* Role requests sent back to back over a backend that never fails; the
\* handlers run as the tasks Datastore::run spawned.
SpecConc == InitConc /\ [][NextConc]_vars

\* What Datastore::new loaded for the runs of SpecRace: a target, and a
\* role and a group that list each other.
RaceMem ==
    LET M == [targets |-> PutTyped(EmptyMap, "db", "t1", NewTarget("t1", "db", {}, EmptyMap)),
              actors |-> EmptyMap,
              roles |-> [r \in {"r1"} |-> [name |-> "r1", groups |-> {"g0"}]],
              groups |-> [g \in {"g0"} |-> NewGroup("g0", None, {}, {"r1"})],
              policies |-> EmptyMap,
              disk |-> EmptyDisk]
    IN [M EXCEPT !.disk = DiskOf(M)]

InitRace ==
    /\ targets = RaceMem.targets
    /\ actors = RaceMem.actors
    /\ roles = RaceMem.roles
    /\ groups = RaceMem.groups
    /\ policies = RaceMem.policies
    /\ disk = RaceMem.disk
    /\ tasks = [t \in TaskIds |-> IdleTask]
    /\ inbox = <<>>
    /\ snap = Views(Mem)
    /\ focus = "race"
    /\ hash64 = DefaultHash
    /\ rpc = [t \in TaskIds |-> "none"]
    /\ watch = Unwatched

NextRace ==
    \/ Send
    \/ Run
    \/ \E t \in TaskIds :
         \/ ModifyTarget(t)
         \/ AddGroup(t) \/ ModifyGroup(t) \/ RemoveGroup(t) \/ RemoveRole(t)

\* Target, group and role writes sent back to back to a loaded datastore
\* over a backend that never fails; each runs as its own task.
SpecRace == InitRace /\ [][NextRace]_vars

-----------------------------------------------------------------------------
(* The change-stream watcher and the updates it forwards                   *)

\* The BackendUpdates a revision of the backend can carry.
Updates ==
    LET amy == [name |-> "amy", typestr |-> "user"] IN
    [op : {"PutActor"}, rec : {NewActor("amy", "user", Attr("role", {"admin"})),
                               NewActor("hal", "bot", EmptyMap)}]
    \cup [op : {"PutTarget"}, rec : {NewTarget("t1", "db", {"read"}, EmptyMap)}]
    \cup [op : {"PutGroup"}, rec : {NewGroup("g1", None, {amy}, {"r2"})}]
    \cup [op : {"PutRole"}, rec : {[name |-> "r2", groups |-> {"g1"}]}]
    \cup [op : {"PutPolicyRule"}, rec : {ToPolicy(Rule("p1", None, None, "Allow"))}]
    \cup [op : {"DeleteActor"}, typestr : {"user", "svc"}, name : {"bob"}]
    \cup [op : {"DeleteTarget"}, typestr : {"db"}, name : {"t1"}]
    \cup [op : {"DeleteGroup", "DeleteRole", "DeletePolicyRule"}, name : {"g1"}]

\* How many times the model lets the watcher forward one revision.
MaxForward == 2

\* Datastore::new over a backend that holds two actors and a group with
\* both as members, and whose change stream will carry some updates.
InitWatch ==
    /\ targets = EmptyMap
    /\ actors = [user |-> [n \in {"amy", "bob"} |-> NewActor(n, "user", EmptyMap)]]
    /\ groups = [g1 |-> NewGroup("g1", None, {[name |-> n, typestr |-> "user"] : n \in {"amy", "bob"}},
                                 {"r1"})]
    /\ roles = RolesOf(groups)
    /\ policies = EmptyMap
    /\ disk = DiskOf([targets |-> targets, actors |-> actors, roles |-> roles,
                      groups |-> groups, policies |-> policies])
    /\ tasks = [t \in TaskIds |-> IdleTask]
    /\ inbox = <<>>
    /\ snap = Views(Mem)
    /\ focus = "watch"
    /\ hash64 = DefaultHash
    /\ rpc = [t \in TaskIds |-> "none"]
    /\ \E events \in [Revs -> Updates] :
          watch = [last_rev |-> 0, forwarded |-> [r \in Revs |-> 0], events |-> events]

\* watch_changes: the stream yields a message whose header carries the
\* revision rev.  A message with the revision processed last is skipped;
\* any other becomes the last revision and its event is sent to the
\* datastore as an Update request.
Deliver(rev) ==
    IF watch.last_rev = rev
    THEN UNCHANGED vars
    ELSE \E t \in TaskIds :
            /\ watch.forwarded[rev] < MaxForward
            /\ tasks[t].pc \in {"idle", "done"}
            /\ \A u \in TaskIds : u < t => tasks[u].pc \notin {"idle", "done"}
            /\ tasks' = [tasks EXCEPT ![t] =
                           [IdleTask EXCEPT !.pc = "queued",
                                            !.req = [op |-> "Update", update |-> watch.events[rev]]]]
            /\ inbox' = Append(inbox, t)
            /\ watch' = [watch EXCEPT !.last_rev = rev, !.forwarded[rev] = @ + 1]
            /\ UNCHANGED <<maps, disk, snap, focus, hash64, rpc>>

NextWatch ==
    \/ \E rev \in Revs : Deliver(rev)
    \/ Send
    \/ Run
    \/ \E t \in TaskIds : Update(t) \/ GetActors(t)

\* The watcher forwards the backend's changes while a caller sends
\* GetActors requests.
SpecWatch == InitWatch /\ [][NextWatch]_vars

-----------------------------------------------------------------------------
(* The RPC handlers of svc.rs in front of the datastore                    *)

\* What an RPC handler checks before it sends the request to the datastore:
\* add_target refuses an empty name or typestr, check a request without an
\* actor; every other handler sends the request on as it is.
svc_validate(req) ==
    IF req.op = "AddTarget" /\ (req.typestr = "" \/ req.name = "") THEN Some("InvalidArgument")
    ELSE IF req.op = "Check" /\ req.actor = None THEN Some("InvalidArgument")
    ELSE None

InitSvc == InitEmpty /\ focus = "svc"

\* An RPC arrives: its handler returns the status of svc_validate, or sends
\* the request into the inbox and waits in call_datastore.
Rpc ==
    \E t \in TaskIds :
       /\ tasks[t].pc = "idle"
       /\ \A u \in TaskIds : u < t => tasks[u].pc # "idle"
       /\ \E req \in Requests(focus) :
             IF svc_validate(req) # None
             THEN /\ tasks' = [tasks EXCEPT ![t] = [IdleTask EXCEPT !.req = req]]
                  /\ rpc' = [rpc EXCEPT ![t] = svc_validate(req)[1]]
                  /\ inbox' = inbox
             ELSE /\ tasks' = [tasks EXCEPT ![t] = [IdleTask EXCEPT !.pc = "queued", !.req = req]]
                  /\ rpc' = [rpc EXCEPT ![t] = "waiting"]
                  /\ inbox' = Append(inbox, t)
       /\ UNCHANGED <<maps, disk, snap, focus, hash64, watch>>

\* Timeout, were the deadline to abort the datastore's handler task as well.
TimeoutCancelling(t) ==
    /\ rpc[t] = "waiting"
    /\ rpc' = [rpc EXCEPT ![t] = "DeadlineExceeded"]
    /\ tasks' = [tasks EXCEPT ![t] = [IdleTask EXCEPT !.pc = "panicked", !.req = tasks[t].req]]
    /\ inbox' = SelectSeq(inbox, LAMBDA u : u # t)
    /\ UNCHANGED <<maps, disk, snap, focus, hash64, watch>>

\* call_datastore: the 30 s sleep of the select! completes first.
Timeout(t) ==
    /\ rpc[t] = "waiting"
    /\ rpc' = [rpc EXCEPT ![t] = "DeadlineExceeded"]
    /\ UNCHANGED <<maps, disk, tasks, inbox, snap, focus, hash64, watch>>

\* call_datastore: the reply channel yields first, the handler's reply or
\* the error of a sender dropped by a handler that panicked.
Receive(t) ==
    /\ rpc[t] = "waiting"
    /\ tasks[t].pc \in {"done", "panicked"}
    /\ rpc' = [rpc EXCEPT ![t] = IF tasks[t].pc = "panicked" THEN "Internal"
                                 ELSE tasks[t].reply[1].code]
    /\ UNCHANGED <<maps, disk, tasks, inbox, snap, focus, hash64, watch>>

NextSvc ==
    \/ Rpc
    \/ Run
    \/ \E t \in TaskIds :
         \/ Timeout(t) \/ Receive(t)
         \/ AddTarget(t) \/ AddActor(t) \/ AddRole(t) \/ AddGroup(t) \/ AddPolicy(t)

\* Add RPCs through svc.rs over a backend that never fails; a caller whose
\* RPC has returned may send the next while earlier requests are handled.
SpecSvc == InitSvc /\ [][NextSvc]_vars

\* SpecSvc under the tokio scheduler: the datastore's receive loop and every
\* spawned handler task that can run eventually does.
SpecSvcLive ==
    /\ InitSvc /\ [][NextSvc]_vars
    /\ WF_vars(Run)
    /\ \A t \in TaskIds : WF_vars(Step(t))

\* The handler of task T run from its start to its reply with no other
\* handler in between.
RECURSIVE RunToDone(_, _)
RunToDone(M, T) ==
    IF ~Running(T) THEN Ret(M, T)
    ELSE LET r == Handler(M, T, TRUE, CHOOSE pick \in Picks(M, T) : TRUE)
         IN RunToDone(r.m, r.t)

\* The task Datastore::run spawns for a request.
Started(req) == [IdleTask EXCEPT !.pc = "start", !.req = req]

-----------------------------------------------------------------------------
(* Properties                                                              *)

\* No request is queued or being handled: every reply has been delivered.
Quiescent == inbox = <<>> /\ \A t \in TaskIds : ~Running(tasks[t]) /\ tasks[t].pc # "queued"

\* Task t has replied with a success response to a request of one of ops.
Succeeded(t, ops) ==
    /\ tasks[t].pc = "done"
    /\ tasks[t].req.op \in ops
    /\ tasks[t].reply[1].kind # "Error"

\* Every role a group lists exists and lists the group back, and every group
\* a role lists exists and lists the role back.
ReferentialIntegrity(M) ==
    /\ \A g \in DOMAIN M.groups : \A r \in M.groups[g].roles :
          r \in DOMAIN M.roles /\ M.groups[g].name \in M.roles[r].groups
    /\ \A r \in DOMAIN M.roles : \A g \in M.roles[r].groups :
          g \in DOMAIN M.groups /\ r \in M.groups[g].roles

\* C1: after any sequence of role and group requests handled one at a time
\* over a backend that never fails, the in-memory maps are referentially
\* intact whenever no request is in progress.  (Requests that are refused
\* leave the maps as they were, so the states between requests are those
\* reached by the successful ones.)
C1_ReferentialIntegrity == Quiescent => ReferentialIntegrity(Mem)

\* C2: whenever a step changes what one of the five maps holds under a key
\* (a record inserted or replaced, or the key removed), the handler taking
\* the step holds an Ok from the storage call for exactly that change: the
\* save of that record value, or the remove of that key.
C2_PersistThenCommit ==
    [][\A kind \in Kinds : \A key \in Keys(Mem, kind) \cup Keys(Mem', kind) :
          Entry(Mem', kind, key) # Entry(Mem, kind, key) =>
             \E t \in TaskIds :
                tasks[t].ack = Ack(kind, key, Entry(Mem', kind, key), TRUE)]_vars

Writes == {"AddTarget", "ModifyTarget", "RemoveTarget", "AddActor", "ModifyActor",
           "RemoveActor", "AddRole", "RemoveRole", "AddGroup", "ModifyGroup",
           "RemoveGroup", "AddPolicy", "ModifyPolicy", "RemovePolicy"}

\* C3: when the storage call for the primary record of an Add, Modify or
\* Remove returns an error, the handler replies with an Internal error and
\* the five unfiltered Gets return exactly what they returned when the
\* request was sent.
C3_PrimaryErrorLeavesMemory ==
    [][\A t \in TaskIds :
          (tasks[t].req.op \in Writes /\ tasks[t].pc = "persist" /\ StorageError(t)) =>
             /\ tasks'[t].pc = "done"
             /\ tasks'[t].reply = <<Error("Internal")>>
             /\ Views(Mem') = snap]_vars

\* A ModifyTarget of a registered target has been refused with an Internal
\* error after its save failed.
C3_Witness ==
    \E t \in TaskIds :
       /\ tasks[t].pc = "done"
       /\ tasks[t].req.op = "ModifyTarget"
       /\ tasks[t].reply = <<Error("Internal")>>
       /\ snap.targets # {}

\* Task t has replied to a Check request.
CheckDone(t) == tasks[t].pc = "done" /\ tasks[t].req.op = "Check"

\* The decision task t replied with.
Decision(t) == CHOOSE d \in tasks[t].reply[1].val : TRUE

\* The names of the rules whose actor check, environment checks and target
\* check all match the request of task t, for the actor as check expanded it.
MatchingRules(t) ==
    {n \in DOMAIN policies :
        RuleMatches(policies[n], tasks[t].req, tasks[t].rec[1],
                    ToAttributes(tasks[t].req.env_attributes), tasks[t].found[1])}

\* C4: a Check for which some matching rule decides Deny is answered Deny,
\* however many matching rules decide Allow and in whatever order the
\* policy map was iterated.
C4_DenyWins ==
    \A t \in TaskIds :
       (CheckDone(t) /\ \E n \in MatchingRules(t) : policies[n].decision = "Deny")
          => tasks[t].reply = <<Multiple("CheckResult", {"Deny"})>>

\* A Check has been answered for which a Deny rule and two Allow rules match.
C4_Witness ==
    \E t \in TaskIds :
       /\ CheckDone(t)
       /\ \E n \in MatchingRules(t) : policies[n].decision = "Deny"
       /\ Cardinality({n \in MatchingRules(t) : policies[n].decision = "Allow"}) >= 2

\* C5: a Check is answered Allow exactly when at least one rule matches
\* and every matching rule decides Allow; otherwise (no rule, no matching
\* rule, or a matching Deny) it is answered Deny.
C5_AllowIffAllMatchingAllow ==
    \A t \in TaskIds :
       CheckDone(t) =>
          /\ tasks[t].reply[1].kind = "CheckResult"
          /\ Decision(t) \in {"Allow", "Deny"}
          /\ Decision(t) = "Allow" <=>
                /\ MatchingRules(t) # {}
                /\ \A n \in MatchingRules(t) : policies[n].decision = "Allow"

\* A Check has been answered Deny although rules are registered, because
\* none of them matches.
C5_Witness ==
    \E t \in TaskIds :
       /\ CheckDone(t)
       /\ policies # EmptyMap
       /\ MatchingRules(t) = {}
       /\ Decision(t) = "Deny"

\* The attributes the caller supplied with the Check request of task t.
Supplied(t) == ActorFrom(tasks[t].req.actor[1]).attributes

\* The attributes of the registered actor the request of task t names.
Registered(t) ==
    LET a == ActorFrom(tasks[t].req.actor[1]) IN
    IF <<a.typestr, a.name>> \in Keys(Mem, "actors")
    THEN Some(actors[a.typestr][a.name].attributes)
    ELSE None

ValuesOf(attrs, k) == IF k \in DOMAIN attrs THEN attrs[k] ELSE {}

\* C9: when the actor a Check names is registered, the expanded actor holds
\* for every attribute key the union of the caller-supplied and the
\* registered values (the two derived keys hold the group-derived values
\* besides).
C9_RegisteredUnion ==
    \A t \in TaskIds :
       (CheckDone(t) /\ Registered(t) # None) =>
          \A k \in (DOMAIN Supplied(t)) \cup (DOMAIN Registered(t)[1]) :
             LET both == ValuesOf(Supplied(t), k) \cup ValuesOf(Registered(t)[1], k)
                 got == ValuesOf(tasks[t].rec[1].attributes, k)
             IN IF k \in {"member-of", "has-role"} THEN both \subseteq got
                                                   ELSE got = both

\* The groups whose members contain the actor of the Check of task t.
Containing(t) ==
    {g \in DOMAIN groups :
        [name |-> tasks[t].rec[1].name, typestr |-> tasks[t].rec[1].typestr]
           \in groups[g].members}

Removes == {"RemoveTarget", "RemoveActor", "RemoveRole", "RemoveGroup", "RemovePolicy"}

\* The Get request that asks for exactly the record a write request names
\* (get_roles and get_groups compare their name filter as given, so the
\* name is passed in its stored, lowercase form).
GetOf(req) ==
    CASE req.op \in {"AddTarget", "ModifyTarget", "RemoveTarget"} ->
           [op |-> "GetTargets", name |-> Some(req.name), typestr |-> Some(req.typestr)]
      [] req.op \in {"AddActor", "ModifyActor", "RemoveActor"} ->
           [op |-> "GetActors", name |-> Some(req.name), typestr |-> Some(req.typestr)]
      [] req.op \in {"AddRole", "RemoveRole"} ->
           [op |-> "GetRoles", name |-> Some(Lower(req.name))]
      [] req.op \in {"AddGroup", "ModifyGroup", "RemoveGroup"} ->
           [op |-> "GetGroups", name |-> Some(Lower(req.name)), member |-> None,
            role |-> None]
      [] req.op \in {"AddPolicy", "ModifyPolicy"} ->
           [op |-> "GetPolicies", name |-> Some(req.rule[1].name)]
      [] req.op = "RemovePolicy" ->
           [op |-> "GetPolicies", name |-> Some(req.name)]

\* The records a Get for the record of task t's request returns when it is
\* the next request handled.
GetAfter(t) == RunToDone(Mem, Started(GetOf(tasks[t].req))).t.reply[1].val

\* C6: once a caller holds the success reply of an Add, Modify or Remove
\* and nothing else is written, its next Get for that key returns the
\* record as replied after an Add or Modify, and no record after a Remove.
C6_ReadYourWrites ==
    \A t \in TaskIds :
       (Quiescent /\ Succeeded(t, Writes)) =>
          GetAfter(t) = IF tasks[t].req.op \in Removes THEN {} ELSE tasks[t].reply[1].val

EmptyMem == [targets |-> EmptyMap, actors |-> EmptyMap, roles |-> EmptyMap,
             groups |-> EmptyMap, policies |-> EmptyMap, disk |-> EmptyDisk]

\* The datastore and the task after the requests of tasks 1..k have been
\* handled one after the other, each to completion, from the empty datastore.
RECURSIVE InSendOrder(_)
InSendOrder(k) ==
    IF k = 0 THEN Ret(EmptyMem, IdleTask)
    ELSE RunToDone(InSendOrder(k - 1).m, Started(tasks[k].req))

\* C7: when the requests a caller sent back to back have all been answered,
\* the five maps and every reply are those of handling the requests to
\* completion one after the other in the order they were sent.
C7_SendOrder ==
    (\A t \in TaskIds : tasks[t].pc \in {"done", "panicked"}) =>
       /\ \A kind \in Kinds : Mem[kind] = InSendOrder(NumTasks).m[kind]
       /\ \A t \in TaskIds : tasks[t].reply = InSendOrder(t).t.reply

\* The handler of task t has read its kind's map for its precondition or
\* pre-image and has not yet committed its result.
InFlight(t) ==
    /\ tasks[t].req.op \in Writes
    /\ tasks[t].pc \in {"get", "scan", "persist", "commit"}

\* C8: no two write handlers of the same kind are in flight together.
C8_SingleWriter ==
    \A t, u \in TaskIds :
       (t # u /\ InFlight(t) /\ InFlight(u)) =>
          KindOf(tasks[t].req.op) # KindOf(tasks[u].req.op)

\* The records GetActors returns for the actor with a key when it is the
\* next request handled.
GetActorsOf(typestr, name) ==
    RunToDone(Mem, Started([op |-> "GetActors", name |-> Some(name),
                            typestr |-> Some(typestr)])).t.reply[1].val

\* C11: for a registered actor, the attributes GetActors returns are those
\* of the actor Check expands for a request that names the actor and
\* supplies no attributes, in the same state; and the actors map still
\* holds the records the backend holds.
C11_GetActorsMatchesCheck ==
    /\ DiskOf(Mem).actors = disk.actors
    /\ \A t \in TaskIds :
          (CheckDone(t) /\ Supplied(t) = EmptyMap /\ Registered(t) # None) =>
             GetActorsOf(tasks[t].rec[1].typestr, tasks[t].rec[1].name) = {tasks[t].rec[1]}
    /\ \A t \in TaskIds :
          (tasks[t].pc = "done" /\ tasks[t].req.op = "GetActors") =>
             \A a \in tasks[t].reply[1].val :
                a = extend_actor(Mem, NewActor(a.name, a.typestr, EmptyMap))

\* A Check that supplied no attributes has been answered for a registered
\* actor that a group with a role contains.
C11_Witness ==
    \E t \in TaskIds :
       /\ CheckDone(t)
       /\ Supplied(t) = EmptyMap
       /\ Registered(t) # None
       /\ \E g \in Containing(t) : groups[g].roles # {}

\* The spellings of a lowercase string that differ from it in letter case
\* at most.
CasesOf(x) == {x} \cup {p[1] : p \in {q \in Spellings : q[2] = x}}

\* The Get (get = TRUE) or Remove request for the record of a kind whose
\* exact key filter is the key as spelled.
ByKey(get, kind, key) ==
    CASE kind = "targets" ->
           [op |-> IF get THEN "GetTargets" ELSE "RemoveTarget",
            name |-> IF get THEN Some(key[2]) ELSE key[2],
            typestr |-> IF get THEN Some(key[1]) ELSE key[1]]
      [] kind = "actors" ->
           [op |-> IF get THEN "GetActors" ELSE "RemoveActor",
            name |-> IF get THEN Some(key[2]) ELSE key[2],
            typestr |-> IF get THEN Some(key[1]) ELSE key[1]]
      [] kind = "roles" ->
           IF get THEN [op |-> "GetRoles", name |-> Some(key)]
           ELSE [op |-> "RemoveRole", name |-> key]
      [] kind = "groups" ->
           IF get THEN [op |-> "GetGroups", name |-> Some(key), member |-> None, role |-> None]
           ELSE [op |-> "RemoveGroup", name |-> key]
      [] kind = "policies" ->
           IF get THEN [op |-> "GetPolicies", name |-> Some(key)]
           ELSE [op |-> "RemovePolicy", name |-> key]

\* C12: for every kind and every record the datastore holds, a Get or a
\* Remove whose exact key filter spells the record's key in any letter case
\* matches the record: the Get returns it and the Remove does not fail.
C12_CaseFold ==
    \A kind \in Kinds : \A key \in Keys(Mem, kind) :
       \A spelled \in IF kind \in {"targets", "actors"}
                      THEN CasesOf(key[1]) \X CasesOf(key[2])
                      ELSE CasesOf(key) :
          /\ RunToDone(Mem, Started(ByKey(TRUE, kind, spelled))).t.reply[1].val # {}
          /\ RunToDone(Mem, Started(ByKey(FALSE, kind, spelled))).t.reply[1].kind # "Error"

\* The Check requests that differ from req in the letter case of the actor
\* name, the actor type, the target name or the target type at most.
RespelledChecks(req) ==
    {[req EXCEPT !.actor = Some([req.actor[1] EXCEPT !.name = an, !.typestr = at]),
                 !.target_name = tn, !.target_type = tt] :
        <<an, at, tn, tt>> \in CasesOf(Lower(req.actor[1].name))
                               \X CasesOf(Lower(req.actor[1].typestr))
                               \X CasesOf(Lower(req.target_name))
                               \X CasesOf(Lower(req.target_type))}

\* C13: a Check request and any request that differs from it only in the
\* letter case of the actor name or type or of the target name or type
\* receive the same decision in the same datastore state.
C13_CaseBlindDecision ==
    \A t \in TaskIds :
       CheckDone(t) =>
          \A other \in RespelledChecks(tasks[t].req) :
             RunToDone(Mem, Started(other)).t.reply[1] = tasks[t].reply[1]

\* C14: everything held in memory is lowercase: every map key, the name and
\* the typestr of every stored record, every member of a stored group and
\* every action of a stored target.
C14_StoredLowercase ==
    LET IsLower(x) == Lower(x) = x IN
    /\ \A kind \in {"targets", "actors"} : \A key \in Keys(Mem, kind) :
          /\ IsLower(key[1]) /\ IsLower(key[2])
          /\ IsLower(Entry(Mem, kind, key)[1].name)
          /\ IsLower(Entry(Mem, kind, key)[1].typestr)
    /\ \A kind \in {"roles", "groups", "policies"} : \A key \in Keys(Mem, kind) :
          IsLower(key) /\ IsLower(Entry(Mem, kind, key)[1].name)
    /\ \A g \in DOMAIN groups : \A m \in groups[g].members :
          IsLower(m.name) /\ IsLower(m.typestr)
    /\ \A key \in Keys(Mem, "targets") :
          \A a \in Entry(Mem, "targets", key)[1].actions : IsLower(a)

\* C15: no stored target or actor has an attribute key whose value-set is
\* empty.
C15_NoEmptyAttribute ==
    \A kind \in {"targets", "actors"} : \A key \in Keys(Mem, kind) :
       \A k \in DOMAIN Entry(Mem, kind, key)[1].attributes :
          Entry(Mem, kind, key)[1].attributes[k] # {}

\* The map a ModifyTarget or ModifyActor request of task t writes to, and
\* the key of the record it names.
ModifiedKind(t) == IF tasks[t].req.op = "ModifyTarget" THEN "targets" ELSE "actors"
ModifiedKey(t) == <<Lower(tasks[t].req.typestr), Lower(tasks[t].req.name)>>

\* The values of key k once the add_attributes of task t's request have
\* been applied to the attributes old.
WithAdded(t, old, k) == ValuesOf(old, k) \cup ValuesOf(tasks[t].req.add_attributes, k)

\* C16: when a ModifyTarget or ModifyActor succeeds, a key of which
\* remove_attributes removes the last remaining value is absent from the
\* attributes of the returned record and of the record in memory, and a
\* key that still has values is kept with exactly its remaining values.
C16_AttributePrune ==
    [][\A t \in TaskIds :
          (/\ tasks[t].req.op \in {"ModifyTarget", "ModifyActor"}
           /\ tasks[t].pc = "commit"
           /\ Succeeded(t, {"ModifyTarget", "ModifyActor"})') =>
             LET old == Entry(Mem, ModifiedKind(t), ModifiedKey(t))[1].attributes
                 stored == Entry(Mem', ModifiedKind(t), ModifiedKey(t))[1].attributes
                 returned == (CHOOSE r \in tasks'[t].reply[1].val : TRUE).attributes
                 removes == tasks[t].req.remove_attributes
             IN \A k \in (DOMAIN old) \cup (DOMAIN tasks[t].req.add_attributes) :
                   IF k \in DOMAIN removes /\ WithAdded(t, old, k) \ removes[k] = {}
                   THEN k \notin DOMAIN stored /\ k \notin DOMAIN returned
                   ELSE /\ k \in DOMAIN stored /\ k \in DOMAIN returned
                        /\ stored[k] = WithAdded(t, old, k) \ ValuesOf(removes, k)
                        /\ returned[k] = stored[k]]_vars

\* A Modify has succeeded whose remove_attributes named every value the
\* record held under a key when the request was sent, and the record it
\* returned holds no such key.
C16_Witness ==
    \E t \in TaskIds :
       /\ Succeeded(t, {"ModifyTarget", "ModifyActor"})
       /\ tasks[t].req.add_attributes = EmptyMap
       /\ \E old \in snap[ModifiedKind(t)] :
             /\ <<old.typestr, old.name>> = ModifiedKey(t)
             /\ \E k \in DOMAIN tasks[t].req.remove_attributes :
                   /\ k \in DOMAIN old.attributes
                   /\ old.attributes[k] # {}
                   /\ old.attributes[k] \subseteq tasks[t].req.remove_attributes[k]
                   /\ \A r \in tasks[t].reply[1].val : k \notin DOMAIN r.attributes

\* C17: a successful ModifyTarget stores and returns the record whose
\* actions are the old actions with the lowercased add_actions added and
\* then the lowercased remove_actions removed, and whose values under each
\* attribute key are the old values with those of add_attributes added and
\* then those of remove_attributes removed; with all four lists empty the
\* stored record is the old record.
C17_ModifyTargetSets ==
    [][\A t \in TaskIds :
          (/\ tasks[t].req.op = "ModifyTarget"
           /\ tasks[t].pc = "commit"
           /\ Succeeded(t, {"ModifyTarget"})') =>
             LET req == tasks[t].req
                 old == Entry(Mem, "targets", ModifiedKey(t))[1]
                 stored == Entry(Mem', "targets", ModifiedKey(t))[1]
             IN /\ tasks'[t].reply[1].val = {stored}
                /\ stored.actions = (old.actions \cup {Lower(a) : a \in req.add_actions})
                                       \ {Lower(a) : a \in req.remove_actions}
                /\ \A k \in (DOMAIN old.attributes) \cup (DOMAIN req.add_attributes)
                               \cup (DOMAIN stored.attributes) :
                      ValuesOf(stored.attributes, k) =
                         WithAdded(t, old.attributes, k) \ ValuesOf(req.remove_attributes, k)
                /\ (/\ req.add_actions = {} /\ req.remove_actions = {}
                    /\ req.add_attributes = EmptyMap /\ req.remove_attributes = EmptyMap)
                      => stored = old]_vars

\* A ModifyTarget that named one action in both its add list and its remove
\* list has succeeded, and the record it returned does not hold the action.
C17_Witness ==
    \E t \in TaskIds :
       /\ Succeeded(t, {"ModifyTarget"})
       /\ \E a \in tasks[t].req.add_actions :
             /\ Lower(a) \in {Lower(r) : r \in tasks[t].req.remove_actions}
             /\ \A rec \in tasks[t].reply[1].val : Lower(a) \notin rec.actions

\* The key a write request names, as the request spells it.
SentKey(req) ==
    CASE KindOf(req.op) \in {"targets", "actors"} -> <<req.typestr, req.name>>
      [] req.op \in {"AddPolicy", "ModifyPolicy"} -> req.rule[1].name
      [] OTHER -> req.name

\* C18: once an Add or a Modify has succeeded and nothing else has been
\* written, a Get filtered by the key the request named returns exactly the
\* record the success reply carried.
C18_GetReturnsReply ==
    \A t \in TaskIds :
       (Quiescent /\ Succeeded(t, Writes \ Removes)) =>
          RunToDone(Mem, Started(ByKey(TRUE, KindOf(tasks[t].req.op),
                                       SentKey(tasks[t].req)))).t.reply[1].val
             = tasks[t].reply[1].val

Adds == {"AddTarget", "AddActor", "AddRole", "AddGroup", "AddPolicy"}

\* Whether memory holds a record under the key a write request names, the
\* key being lowercased as every write handler does.
Present(M, req) ==
    LET key == SentKey(req) IN
    (IF KindOf(req.op) \in {"targets", "actors"} THEN <<Lower(key[1]), Lower(key[2])>>
     ELSE Lower(key)) \in Keys(M, KindOf(req.op))

\* C19: the handler of an Add whose key memory holds replies AlreadyExists,
\* and the handler of a Modify or Remove whose key memory does not hold
\* replies NotFound, in its first step; that step leaves the maps in memory
\* and the backend as they were.
C19_PreconditionRefusal ==
    [][\A t \in TaskIds :
          (/\ tasks[t].pc = "start" /\ tasks'[t] # tasks[t]
           /\ tasks[t].req.op \in Writes
           /\ tasks[t].req.op \in {"AddPolicy", "ModifyPolicy"} => tasks[t].req.rule # None
           /\ Present(Mem, tasks[t].req) <=> tasks[t].req.op \in Adds) =>
             /\ tasks'[t].pc = "done"
             /\ tasks'[t].reply = <<Error(IF tasks[t].req.op \in Adds THEN "AlreadyExists"
                                                                     ELSE "NotFound")>>
             /\ Mem' = Mem]_vars

\* An AddRole for a role that was stored when the request was sent has been
\* refused with AlreadyExists.
C19_Witness ==
    \E t \in TaskIds :
       /\ tasks[t].pc = "done"
       /\ tasks[t].req.op = "AddRole"
       /\ tasks[t].reply = <<Error("AlreadyExists")>>
       /\ \E r \in snap.roles : r.name = Lower(tasks[t].req.name)

\* C20: when the role lookup of an AddGroup or a ModifyGroup names a role
\* that does not exist, the handler replies with the FailedPrecondition
\* error kind, and the maps in memory and the backend stay as they were.
C20_MissingRoleRefused ==
    [][\A t \in TaskIds :
          (/\ tasks[t].req.op \in {"AddGroup", "ModifyGroup"}
           /\ tasks[t].pc = "scan" /\ tasks'[t] # tasks[t]
           /\ Lower(Head(tasks[t].todo).role) \notin DOMAIN roles) =>
             /\ tasks'[t].pc = "done"
             /\ tasks'[t].reply = <<Error("FailedPrecondition")>>
             /\ Mem' = Mem]_vars

\* C21: an Add RPC whose name is empty, or whose typestr is empty for a
\* target or an actor, returns InvalidArgument without reaching the
\* datastore, and neither memory nor the backend holds a record with an
\* empty name or typestr.
C21_EmptyNameRefused ==
    LET HasEmpty(kind, key) == IF kind \in {"targets", "actors"}
                               THEN key[1] = "" \/ key[2] = ""
                               ELSE key = ""
    IN
    /\ \A t \in TaskIds :
          (/\ tasks[t].req.op \in Adds
           /\ HasEmpty(KindOf(tasks[t].req.op), SentKey(tasks[t].req))) =>
             tasks[t].pc = "idle" /\ rpc[t] = "InvalidArgument"
    /\ \A kind \in Kinds : \A key \in Keys(Mem, kind) \cup DOMAIN disk[kind] :
          ~HasEmpty(kind, key)

\* The requests that write secondary records after their primary record.
TwoPhase == {"AddGroup", "ModifyGroup", "RemoveGroup", "RemoveRole"}

\* C22: once the primary record of an AddGroup, ModifyGroup, RemoveGroup or
\* RemoveRole is persisted, a save of a secondary record that fails does
\* not end the handler: it goes on to the commit of that record, the reply
\* it finally sends is the success reply carrying the primary record, and
\* no step of this phase changes the map or the backend records of the
\* primary kind.
C22_SecondaryFailureHidden ==
    [][\A t \in TaskIds :
          (/\ tasks[t].req.op \in TwoPhase
           /\ tasks[t].pc \in {"persist2", "commit2"}
           /\ tasks'[t] # tasks[t]) =>
             LET kind == KindOf(tasks[t].req.op) IN
             /\ tasks'[t].pc \in {"persist2", "commit2", "done"}
             /\ (tasks[t].pc = "persist2" /\ StorageError(t)) =>
                   tasks'[t].pc = "commit2" /\ Mem' = Mem
             /\ tasks'[t].pc = "done" =>
                   /\ tasks'[t].reply[1].kind # "Error"
                   /\ tasks'[t].reply[1].val = {tasks[t].rec[1]}
             /\ Mem'[kind] = Mem[kind]
             /\ disk'[kind] = disk[kind]]_vars

\* An AddGroup has been answered with its group although the save of a role
\* it names failed: the role lists the group in memory and not in the
\* backend.
C22_Witness ==
    \E t \in TaskIds :
       /\ Succeeded(t, {"AddGroup"})
       /\ \E r \in DOMAIN roles :
             /\ Lower(tasks[t].req.name) \in roles[r].groups
             /\ r \in DOMAIN disk.roles
             /\ Lower(tasks[t].req.name) \notin disk.roles[r].groups

\* C23: in every state and for every BackendUpdate u, applying u twice
\* yields the maps that applying it once yields; a Delete of a key the maps
\* do not hold and a Put of the record they hold leave the maps unchanged;
\* and applying u leaves the backend and every entry but the one u names
\* as they were.
C23_UpdateIdempotent ==
    \A u \in Updates :
       LET Applied(M) == update(M, Started([op |-> "Update", update |-> u]), TRUE, None).m
           once == Applied(Mem)
           kind == CASE u.op \in {"PutActor", "DeleteActor"} -> "actors"
                     [] u.op \in {"PutTarget", "DeleteTarget"} -> "targets"
                     [] u.op \in {"PutGroup", "DeleteGroup"} -> "groups"
                     [] u.op \in {"PutRole", "DeleteRole"} -> "roles"
                     [] OTHER -> "policies"
           put == u.op \in {"PutActor", "PutTarget", "PutGroup", "PutRole", "PutPolicyRule"}
           name == IF put THEN u.rec.name ELSE u.name
           key == IF kind \in {"actors", "targets"}
                  THEN <<IF put THEN u.rec.typestr ELSE u.typestr, name>> ELSE name
       IN /\ Applied(once) = once
          /\ once.disk = disk
          /\ \A other \in (Keys(Mem, kind) \cup Keys(once, kind)) \ {key} :
                Entry(once, kind, other) = Entry(Mem, kind, other)
          /\ \A k \in Kinds \ {kind} : once[k] = Mem[k]
          /\ Entry(once, kind, key) = IF put THEN Some(u.rec) ELSE None
          /\ Entry(Mem, kind, key) = (IF put THEN Some(u.rec) ELSE None) => once = Mem

\* The datastore has applied a PutGroup for a group it already held, and
\* holds the group as the update carried it.
C23_Witness ==
    \E t \in TaskIds :
       /\ tasks[t].pc = "done"
       /\ tasks[t].req.op = "Update"
       /\ tasks[t].req.update.op = "PutGroup"
       /\ groups["g1"] = tasks[t].req.update.rec
       /\ disk.groups["g1"] # groups["g1"]

\* C27: whatever the order in which the backend delivers and redelivers
\* its revisions, the watcher forwards the events of a revision to the
\* datastore at most once.
C27_RevisionForwardedOnce == \A rev \in Revs : watch.forwarded[rev] <= 1

RECURSIVE GroupHistories(_)
GroupHistories(S) ==
    LET next == S \cup {Updated([Mem EXCEPT !.groups = G], watch.events[r]).groups :
                            G \in S, r \in Revs}
    IN IF next = S THEN S ELSE GroupHistories(next)

\* The attributes expand_groups_and_roles derives for an actor from the
\* groups map G.
DerivedFrom(G, a) ==
    expand_groups_and_roles([Mem EXCEPT !.groups = G],
                            NewActor(a.name, a.typestr, EmptyMap)).attributes

\* The group-derived attributes a returned actor carries.
DerivedIn(r) ==
    [k \in DOMAIN r.attributes \cap {"member-of", "has-role"} |-> r.attributes[k]]

\* C25: within one GetActors reply the member-of and has-role values of
\* all returned actors correspond to one state the groups map had at a
\* single instant, whatever backend updates run beside the request.
C25_OneGroupsSnapshot ==
    \A t \in TaskIds :
        (tasks[t].pc = "done" /\ tasks[t].req.op = "GetActors" /\ tasks[t].reply # <<>>) =>
            \E G \in GroupHistories({disk.groups}) :
                \A r \in tasks[t].reply[1].val : DerivedIn(r) = DerivedFrom(G, r)

\* The entry the maps and the backend hold for the record a request names.
Kept(M, req) ==
    LET kind == KindOf(req.op)
        key == SentKey(req)
        stored == IF kind \in {"targets", "actors"} THEN <<Lower(key[1]), Lower(key[2])>>
                  ELSE Lower(key)
    IN [mem |-> Entry(M, kind, stored),
        disk |-> IF stored \in DOMAIN M.disk[kind] THEN Some(M.disk[kind][stored]) ELSE None]

\* C26: once the deadline of an RPC has fired its caller has
\* DeadlineExceeded, the handler task of the datastore still runs to its
\* end and sends its reply to nobody without failing, and what it saved
\* and committed stays in the backend and in memory.
C26_DeadlineKeepsCommit ==
    /\ [](\A t \in TaskIds :
            (rpc[t] = "DeadlineExceeded" /\ tasks[t].pc = "done" /\ tasks[t].reply[1].code = "Ok") =>
                /\ Kept(Mem, tasks[t].req).mem = Some(CHOOSE r \in tasks[t].reply[1].val : TRUE)
                /\ Kept(Mem, tasks[t].req).disk = Kept(Mem, tasks[t].req).mem)
    /\ \A t \in TaskIds :
          (rpc[t] = "DeadlineExceeded") ~> (rpc[t] = "DeadlineExceeded" /\ tasks[t].pc = "done")

\* The deadline fired while the handler was waiting for its save, and the
\* handler has since committed and replied.
C26_Witness ==
    \E t \in TaskIds :
        /\ rpc[t] = "DeadlineExceeded"
        /\ tasks[t].pc = "done"
        /\ tasks[t].reply[1].code = "Ok"
        /\ Kept(Mem, tasks[t].req).disk # None

\* The roles and groups maps as they were when the request in progress, or
\* the last one handled, was sent.
Before ==
    [roles |-> [n \in {r.name : r \in snap.roles} |-> CHOOSE r \in snap.roles : r.name = n],
     groups |-> [n \in {g.name : g \in snap.groups} |-> CHOOSE g \in snap.groups : g.name = n]]

\* C28: after a successful RemoveRole of R, sent when the maps were
\* referentially intact, R is not in the roles map, no group lists R, and
\* every group is what it was but for R in its roles.
C28_RemoveRoleUnlinks ==
    (Quiescent /\ Succeeded(1, {"RemoveRole"}) /\ ReferentialIntegrity(Before)) =>
        LET R == Lower(tasks[1].req.name) IN
        /\ R \notin DOMAIN roles
        /\ DOMAIN groups = DOMAIN Before.groups
        /\ \A g \in DOMAIN groups :
              /\ R \notin groups[g].roles
              /\ groups[g] = [Before.groups[g] EXCEPT !.roles = @ \ {R}]

\* A role that a group listed has been removed.
C28_Witness ==
    /\ Quiescent /\ Succeeded(1, {"RemoveRole"}) /\ ReferentialIntegrity(Before)
    /\ \E g \in DOMAIN Before.groups : Lower(tasks[1].req.name) \in Before.groups[g].roles
    /\ \E g \in DOMAIN groups : groups[g].roles # {}

\* The lowercased names of a list of role names.
Named(names) == {Lower(names[i]) : i \in 1..Len(names)}

\* C29: after a successful AddGroup of G every role it names lists G; after
\* a successful ModifyGroup of G every role of add_roles lists G and no role
\* of remove_roles does; after a successful RemoveGroup of G no role lists G.
C29_BackReferences ==
    LET req == tasks[1].req
        G == Lower(req.name)
    IN
    /\ (Quiescent /\ Succeeded(1, {"AddGroup"})) =>
          \A r \in Named(req.roles) : r \in DOMAIN roles /\ G \in roles[r].groups
    /\ (Quiescent /\ Succeeded(1, {"ModifyGroup"})) =>
          /\ \A r \in Named(req.add_roles) : r \in DOMAIN roles /\ G \in roles[r].groups
          /\ \A r \in Named(req.remove_roles) : r \in DOMAIN roles /\ G \notin roles[r].groups
    /\ (Quiescent /\ Succeeded(1, {"RemoveGroup"})) =>
          \A r \in DOMAIN roles : G \notin roles[r].groups

\* A ModifyGroup that added one role to a group and took another from it
\* has succeeded.
C29_Witness ==
    /\ Quiescent /\ Succeeded(1, {"ModifyGroup"})
    /\ tasks[1].req.add_roles # <<>> /\ tasks[1].req.remove_roles # <<>>
    /\ \E g \in Before.groups[Lower(tasks[1].req.name)].roles :
          g \in Named(tasks[1].req.remove_roles)

\* C30: a successful ModifyGroup returns, and leaves in memory, the group
\* with the description its request gave.
C30_DescriptionReplaced ==
    (Quiescent /\ Succeeded(1, {"ModifyGroup"})) =>
        /\ \A g \in tasks[1].reply[1].val : g.desc = tasks[1].req.desc
        /\ groups[Lower(tasks[1].req.name)].desc = tasks[1].req.desc

\* C31: the bucket of an actor is a value in 0..99 that depends on the
\* actor's type and name alone, not on its attributes or on the maps, and
\* the conversion of hash % 100 to a u8 never fails, whatever 64-bit value
\* the hash has.
C31_BucketStable ==
    \A t \in TaskIds :
        (tasks[t].req.op = "Check" /\ tasks[t].req.actor # None) =>
            LET sent == ActorFrom(tasks[t].req.actor[1]) IN
            /\ tasks[t].pc # "panicked"
            /\ bucket(sent) # None
            /\ bucket(sent)[1] \in 0..99
            /\ bucket(sent)[1] = Rem100(hash64[HashKey(sent.typestr, sent.name)])
            /\ tasks[t].rec # <<>> => bucket(tasks[t].rec[1]) = bucket(sent)
            /\ \A attrs \in {EmptyMap, Attr("role", {"admin"}), Attr("team", {"ops"})} :
                  bucket([sent EXCEPT !.attributes = attrs]) = bucket(sent)

\* A check whose rule compares the bucket has replied for an actor whose
\* hash is 2^64 - 1 and whose attributes were extended from the registered
\* actor's.
C31_Witness ==
    \E t \in TaskIds :
        /\ CheckDone(t)
        /\ "b1" \in DOMAIN policies
        /\ hash64[HashKey(tasks[t].rec[1].typestr, tasks[t].rec[1].name)] = U64(65535, 65535, 65535, 65535)
        /\ tasks[t].rec[1].attributes # Supplied(t)
        /\ Decision(t) = "Allow"

\* The attributes of the target a check names: those of the registered
\* target, or none.
TargetAttributes(t) ==
    LET ty == tasks[t].req.target_type
        n == tasks[t].req.target_name
    IN IF <<ty, n>> \in Keys(Mem, "targets") THEN targets[ty][n].attributes ELSE EmptyMap

\* The key is in both maps with a common value.
SharedValue(k, a, b) == k \in DOMAIN a /\ k \in DOMAIN b /\ a[k] \cap b[k] # {}

\* C32: a rule whose target check lists keys in match_in_actor or
\* match_in_env applies only if every such key is in the registered
\* target's attributes and in the actor's, or the environment's, with a
\* common value; for a target that is not registered any such key makes
\* the rule not apply.
C32_MatchKeys ==
    \A t \in TaskIds :
        (CheckDone(t) /\ focus = "match") =>
            \A n \in DOMAIN policies :
                LET tc == policies[n].target_check[1]
                    applies == n \in MatchingRules(t)
                IN
                /\ applies => \A k \in tc.match_in_actor :
                                 SharedValue(k, TargetAttributes(t), tasks[t].rec[1].attributes)
                /\ applies => \A k \in tc.match_in_env :
                                 SharedValue(k, TargetAttributes(t),
                                             ToAttributes(tasks[t].req.env_attributes))
                /\ (TargetAttributes(t) = EmptyMap /\ tc.match_in_actor \cup tc.match_in_env # {}) =>
                      ~applies /\ Decision(t) = "Deny"
                /\ applies <=> Decision(t) = "Allow"

\* A rule that matches one key in the actor and one in the environment has
\* allowed a check of a registered target; the actor's key came from the
\* registered actor.
C32_Witness ==
    \E t \in TaskIds :
        /\ CheckDone(t) /\ focus = "match"
        /\ Decision(t) = "Allow"
        /\ \E n \in DOMAIN policies :
              /\ policies[n].target_check[1].match_in_actor # {}
              /\ policies[n].target_check[1].match_in_env # {}
        /\ Supplied(t) = EmptyMap

\* C33: Has(key, values) passes iff the key is in the map and its values
\* intersect the given ones, and HasNot(key, values) passes iff Has does
\* not; with no values given Has never passes and HasNot always does.
C33_KvCheck ==
    \A t \in TaskIds :
        (CheckDone(t) /\ focus = "kv") =>
            \A n \in DOMAIN policies : \A kv \in policies[n].env_attributes :
                LET env == ToAttributes(tasks[t].req.env_attributes)
                    has == kv.key \in DOMAIN env /\ env[kv.key] \cap kv.vals # {}
                    passes == Decision(t) = "Allow"
                IN
                /\ kv.op = "Has" => (passes <=> has)
                /\ kv.op = "HasNot" => (passes <=> ~has)
                /\ (kv.op = "Has" /\ kv.vals = {}) => ~passes
                /\ (kv.op = "HasNot" /\ kv.vals = {}) => passes
                /\ passes <=> KvCheck_check(kv, env)
                /\ KvCheck_check(HasNot(kv.key, kv.vals), env) <=> ~KvCheck_check(Has(kv.key, kv.vals), env)

\* A rule whose environment check has no values was evaluated against an
\* environment that holds the key, and a HasNot with no values allowed.
C33_Witness ==
    \E t \in TaskIds :
        /\ CheckDone(t) /\ focus = "kv"
        /\ \E n \in DOMAIN policies : \E kv \in policies[n].env_attributes :
              kv.vals = {} /\ kv.op = "HasNot" /\ kv.key \in DOMAIN tasks[t].req.env_attributes
        /\ Decision(t) = "Allow"

\* A Check request without what its caller supplied under member-of and
\* has-role.
WithoutGrants(req) ==
    LET a == req.actor[1].attributes IN
    [req EXCEPT !.actor = Some([req.actor[1] EXCEPT !.attributes =
                    [k \in DOMAIN a \ {"member-of", "has-role"} |-> a[k]]])]

\* C40: two Check requests that differ only in the values their caller
\* supplied under member-of or has-role receive the same decision in the
\* same datastore state.
C40_GrantsNotForgeable ==
    \A t \in TaskIds :
        (CheckDone(t) /\ focus = "forge") =>
            \A other \in RuleChecks("forge") :
                WithoutGrants(other) = WithoutGrants(tasks[t].req) =>
                    RunToDone(Mem, Started(other)).t.reply[1] = tasks[t].reply[1]

\* C38: over a backend without a change stream whose calls always succeed,
\* whenever no request is in progress the backend holds, for every kind,
\* the records the in-memory map holds, under the same keys.
C38_StorageEqualsMemory == Quiescent => disk = DiskOf(Mem)

\* The key under which the maps hold the record a write request names.
StoredKey(req) ==
    LET key == SentKey(req) IN
    IF KindOf(req.op) \in {"targets", "actors"} THEN <<Lower(key[1]), Lower(key[2])>>
    ELSE Lower(key)

\* C35: of two Add requests for the same key of the same kind that are in
\* flight together at most one receives a success reply.  (No request
\* removes a record here, so two successful Adds of one key can only have
\* overlapped.)
C35_OneAddSucceeds ==
    \A t, u \in TaskIds :
        (t # u /\ Succeeded(t, Adds) /\ Succeeded(u, Adds)
              /\ tasks[t].req.op = tasks[u].req.op) =>
            StoredKey(tasks[t].req) # StoredKey(tasks[u].req)

\* C37: every request taken from the inbox receives its reply: no handler
\* task ends without having sent one.  (A task that panicked has dropped
\* its reply channel and will never send.)
C37_EveryRequestReplied ==
    \A t \in TaskIds :
        /\ tasks[t].pc # "panicked"
        /\ tasks[t].pc = "done" => Len(tasks[t].reply) = 1

\* Every request that was sent has been answered.
AllReplied == inbox = <<>> /\ \A t \in TaskIds : tasks[t].pc \in {"idle", "done"}

\* C34: when group and role writes overlap in time, here AddGroup requests
\* that name one role and a RemoveRole of that role, then once all have
\* replied every role lists exactly the groups that list it, and every
\* role a group lists exists.
C34_IntegrityUnderRaces ==
    (AllReplied /\ \A t \in TaskIds : tasks[t].req.op \in {"AddGroup", "RemoveRole"}) =>
        ReferentialIntegrity(Mem)

\* The in-memory maps after the handlers of a and then b ran, one after the
\* other, on the loaded datastore.
Serial(a, b) ==
    LET M == RunToDone(RunToDone(RaceMem, Started(a)).m, Started(b)).m
    IN <<M.targets, M.actors, M.roles, M.groups, M.policies>>

\* C36: two Modify requests on one target, or on one group, or a
\* ModifyGroup and a RemoveRole that rewrites the same group, that were in
\* flight together and both replied with success leave the maps as the two
\* applied one after the other, in one order or the other, leave them.
C36_NoLostUpdate ==
    \A t, u \in TaskIds :
        (/\ t # u
         /\ AllReplied
         /\ \A v \in TaskIds \ {t, u} : tasks[v].pc = "idle"
         /\ Succeeded(t, {"ModifyTarget", "ModifyGroup"})
         /\ Succeeded(u, {tasks[t].req.op} \cup
                            (IF tasks[t].req.op = "ModifyGroup" THEN {"RemoveRole"} ELSE {}))) =>
            maps \in {Serial(tasks[t].req, tasks[u].req), Serial(tasks[u].req, tasks[t].req)}

\* What the backend held when the datastore of SpecWatch loaded it, as maps.
WatchLoaded ==
    LET gs == [g \in {"g1"} |->
                 NewGroup("g1", None, {[name |-> n, typestr |-> "user"] : n \in {"amy", "bob"}},
                          {"r1"})]
    IN [targets |-> EmptyMap,
        actors |-> [user |-> [n \in {"amy", "bob"} |-> NewActor(n, "user", EmptyMap)]],
        roles |-> RolesOf(gs), groups |-> gs, policies |-> EmptyMap, disk |-> EmptyDisk]

\* What the backend holds once it has made the changes of revisions
\* 1..rev, in the order of their revisions.
RECURSIVE BackendAt(_)
BackendAt(rev) ==
    IF rev = 0 THEN WatchLoaded ELSE Updated(BackendAt(rev - 1), watch.events[rev])

\* C39: once every event of the change stream has been delivered, in the
\* order of its revision and once, and applied, and no request is in
\* flight, each in-memory map equals what the backend holds; two updates
\* of one key take effect in the order the backend issued them.
C39_ConvergesToBackend ==
    (/\ AllReplied
     /\ watch.last_rev = MaxRev
     /\ \A r \in Revs : watch.forwarded[r] = 1) =>
        LET B == BackendAt(MaxRev) IN
        maps = <<B.targets, B.actors, B.roles, B.groups, B.policies>>

====
